---- MODULE Spec2Model ----
(***************************************************************************)
(* Webhook listener of GeminiCLITelebot: the request handler of the full   *)
(* listener (src/unnamed/part_001) and of the simple listener              *)
(* (src/scripts/listen.js), as a state machine of one request.             *)
(*                                                                         *)
(* JavaScript runs a handler to its next `await` without interleaving, so  *)
(* one action is one such run: from the request's `end` event to the first *)
(* child process, and from a child's event to the next child or to the     *)
(* delivery.  `trace` records the effects in the order the code makes      *)
(* them (responses, file writes, spawns, kills, callback posts, escaped    *)
(* errors).                                                                *)
(*                                                                         *)
(* Strings the code takes apart (file names, base64 payloads) are          *)
(* sequences of one-character strings; strings it only compares or passes  *)
(* on are TLA+ strings.                                                    *)
(***************************************************************************)
EXTENDS Integers, Sequences, FiniteSets, TLC

VARIABLES
    server,       \* the process and its HTTP server: listening, connections, exit
    variant,      \* "full" (part_001) or "simple" (listen.js)
    env,          \* process-wide configuration read at startup
    req,          \* the request as received
    pc,           \* where the handler of the request stands
    fs,           \* names that exist in the working directory
    saved,        \* Materialized Files of the request
    audioIdx,     \* index in saved of the file being transcribed (0: none)
    requestText,  \* sections appended to the request text
    child,        \* the outstanding child process and its promise
    prompt,       \* the task prompt composed for the reasoning engine
    result,       \* what doWork returned
    trace         \* effects, in order

vars == <<server, variant, env, req, pc, fs, saved, audioIdx, requestText, prompt, child, result, trace>>

----------------------------------------------------------------------------
(* Bounds of the model *)

\* longest attachment list of a request of Spec
MaxAtts == 2
\* longest attachment list of a request of SpecMat
MaxMatAtts == 3
\* longest base64 payload, in characters
MaxB64Len == 4
\* number of times the Prompt Composer is run on the inputs of one request
MaxCompose == 2
\* longest attachment list of a request of SpecLoop
LoopMaxAtts == 1

(* Configuration: both are read from the environment at startup; the model  *)
(* runs the listener with small ceilings.                                   *)
ATTACH_MAX_FILES == 2
ATTACH_MAX_BYTES == 2
\* sanitizeFilename keeps the first 128 characters
MaxNameLen == 128

----------------------------------------------------------------------------
(* Characters and strings *)

Lower == {"a","b","c","d","e","f","g","h","i","j","k","l","m",
          "n","o","p","q","r","s","t","u","v","w","x","y","z"}
Upper == {"A","B","C","D","E","F","G","H","I","J","K","L","M",
          "N","O","P","Q","R","S","T","U","V","W","X","Y","Z"}
Digit == {"0","1","2","3","4","5","6","7","8","9"}

\* the character class [a-zA-Z0-9._-] of sanitizeFilename
SafeChar(c) == c \in Lower \cup Upper \cup Digit \cup {".", "_", "-"}

Min(a, b) == IF a < b THEN a ELSE b

\* s.slice(0, n)
Take(s, n) == SubSeq(s, 1, Min(Len(s), n))

DigitChar(d) ==
    CASE d = 0 -> "0" [] d = 1 -> "1" [] d = 2 -> "2" [] d = 3 -> "3" [] d = 4 -> "4"
      [] d = 5 -> "5" [] d = 6 -> "6" [] d = 7 -> "7" [] d = 8 -> "8" [] d = 9 -> "9"

RECURSIVE NumStr(_)
\* `${i}` for an integer i >= 0
NumStr(i) == IF i < 10 THEN <<DigitChar(i)>> ELSE NumStr(i \div 10) \o <<DigitChar(i % 10)>>

UploadBin == <<"u","p","l","o","a","d",".","b","i","n">>

\* sanitizeFilename(name): (name || "upload.bin"), every character outside
\* the class replaced by "_", cut to 128 characters
sanitizeFilename(name) ==
    LET n == IF name = <<>> THEN UploadBin ELSE name
        r == [i \in 1..Len(n) |-> IF SafeChar(n[i]) THEN n[i] ELSE "_"]
    IN  Take(r, MaxNameLen)

\* index of the last "." of a name, 0 when it has none
LastDot(f) ==
    LET D == {i \in 1..Len(f) : f[i] = "."}
    IN  IF D = {} THEN 0 ELSE CHOOSE i \in D : \A j \in D : j <= i

\* path.extname of a name without separators: from the last "." on, and ""
\* when there is no ".", when the only "." leads the name, and for ".."
extname(f) ==
    LET d == LastDot(f)
    IN  IF d = 0 \/ d = 1 \/ f = <<".", ".">> THEN <<>> ELSE SubSeq(f, d, Len(f))

\* path.basename(fname, ext) of a name without separators
basename(f, ext) ==
    IF ext # <<>> /\ Len(ext) <= Len(f) /\ ext # f
          /\ SubSeq(f, Len(f) - Len(ext) + 1, Len(f)) = ext
    THEN SubSeq(f, 1, Len(f) - Len(ext))
    ELSE f

\* an existence check that knows the files of the directory only
existsSync_FilesOnly(files, name) == name \in files

\* fs.existsSync(path.join(baseDir, name)): "." is the working directory and
\* ".." its parent, which exist
existsSync(files, name) == name \in files \/ name = <<".">> \/ name = <<".", ".">>

RECURSIVE uniquifyFrom(_, _, _, _)
uniquifyFrom(files, stem, ext, i) ==
    LET trial == stem \o <<"-">> \o NumStr(i) \o ext
    IN  IF ~existsSync(files, trial) THEN trial ELSE uniquifyFrom(files, stem, ext, i + 1)

\* uniquify without its existence check: the name as it is
uniquify_Overwrite(files, fname) == fname

\* uniquify(baseDir, fname): the name itself when it is free, else the first
\* free <stem>-<i><ext>, i = 1, 2, ...
uniquify(files, fname) ==
    IF ~existsSync(files, fname) THEN fname
    ELSE uniquifyFrom(files, basename(fname, extname(fname)), extname(fname), 1)

\* Buffer.from(b64, "base64").length: every 4 characters of the base64
\* alphabet give 3 bytes, a remainder of 2 or 3 gives 1 or 2; characters
\* outside the alphabet ("!" here) are skipped
DecodedLen(b64) ==
    (Cardinality({i \in 1..Len(b64) : b64[i] # "!"}) * 3) \div 4

\* /\.(m4a|mp3|wav|ogg|flac|aiff|wma|aac)$/i
AudioExts ==
    { <<".","m","4","a">>, <<".","m","p","3">>, <<".","w","a","v">>, <<".","o","g","g">>,
      <<".","f","l","a","c">>, <<".","a","i","f","f">>, <<".","w","m","a">>, <<".","a","a","c">> }

LowerOf(c) ==
    CASE c = "A" -> "a" [] c = "C" -> "c" [] c = "F" -> "f" [] c = "G" -> "g" [] c = "I" -> "i"
      [] c = "L" -> "l" [] c = "M" -> "m" [] c = "O" -> "o" [] c = "P" -> "p" [] c = "V" -> "v"
      [] c = "W" -> "w" [] OTHER -> c

\* the test without the flag i
isAudio_CaseSensitive(f) ==
    \E e \in AudioExts :
        /\ Len(e) <= Len(f)
        /\ SubSeq(f, Len(f) - Len(e) + 1, Len(f)) = e

isAudio(f) ==
    \E e \in AudioExts :
        /\ Len(e) <= Len(f)
        /\ [i \in 1..Len(e) |-> LowerOf(f[Len(f) - Len(e) + i])] = e

\* filePath.replace(/\.\w+$/, ".txt") on the name of an audio file
TxtName(f) == SubSeq(f, 1, LastDot(f) - 1) \o <<".","t","x","t">>

----------------------------------------------------------------------------
(* The process *)

\* most connections the server has at a time in SpecShutdown
MaxConns == 2

Conns == 1..MaxConns

\* the process after server.listen: listening, no connection, no signal
ServerUp ==
    [listening |-> TRUE, closing |-> FALSE, timer |-> FALSE, exited |-> "no",
     conns |-> [c \in Conns |-> "none"], atSigint |-> {}, answered |-> {}, aborted |-> {}]

----------------------------------------------------------------------------
(* Effects *)

NoName == <<>>
\* no URL: an absent (or falsy) response_url
NoUrl == [set |-> FALSE, ok |-> FALSE, host |-> <<>>]

Ev(e, status, what, ok, val, url, name) ==
    [e |-> e, status |-> status, what |-> what, ok |-> ok, val |-> val, url |-> url, name |-> name]

\* res.writeHead(status); res.end(body)
Res(status, what, ok, val) == Ev("res", status, what, ok, val, NoUrl, NoName)
\* fs.writeFileSync(dest, buf); val tells whether dest existed before
WriteEv(name, existed) == Ev("write", 0, "file", "na", IF existed THEN "overwrite" ELSE "new", NoUrl, name)
\* spawn(...) of the transcription engine (on a file) or of the reasoning engine
SpawnEv(proc, name) == Ev("spawn", 0, proc, "na", "", NoUrl, name)
\* p.kill("SIGKILL")
KillEv(proc) == Ev("kill", 0, proc, "na", "", NoUrl, NoName)
\* the request of postJSON, written to the socket
PostEv(url, schema, ok, val) == Ev("post", 0, schema, ok, val, url, NoName)
\* an error that leaves the async handler (an unhandled rejection)
ThrowEv(what) == Ev("throw", 0, what, "na", "", NoUrl, NoName)

BoolStr(b) == IF b THEN "true" ELSE "false"

\* positions of the effects of a kind in a trace
Where(tr, e) == {i \in 1..Len(tr) : tr[i].e = e}

----------------------------------------------------------------------------
(* Attachment Materializer *)

\* An attachment entry of the body.  kind "bad" is an entry the loop body
\* throws on before it writes (null entry, filename or data_base64 that is
\* not a string); filename <<>> and data <<>> are absent or empty strings.
Att(kind, filename, data, mime) ==
    [kind |-> kind, filename |-> filename, data |-> data, mime |-> mime]

OctetStream == "application/octet-stream"

RECURSIVE matLoop_CeilingExclusive(_, _, _, _, _, _)
\* the loop with the size test >= in place of >
matLoop_CeilingExclusive(atts, i, files, acc, wr, failAt) ==
    IF i > Len(atts) THEN [fs |-> files, saved |-> acc, writes |-> wr]
    ELSE
      LET att   == atts[i]
          fname == sanitizeFilename(att.filename)
          bytes == DecodedLen(att.data)
          dest  == uniquify(files, fname)
      IN  IF att.kind = "bad" \/ att.data = <<>> \/ bytes >= ATTACH_MAX_BYTES \/ i = failAt
          THEN matLoop_CeilingExclusive(atts, i + 1, files, acc, wr, failAt)
          ELSE matLoop_CeilingExclusive(atts, i + 1, files \cup {dest},
                       Append(acc, [filename |-> dest, bytes |-> bytes,
                                    mime |-> IF att.mime = "" THEN OctetStream ELSE att.mime,
                                    entry |-> i]),
                       Append(wr, WriteEv(dest, existsSync(files, dest))),
                       failAt)

RECURSIVE matLoop(_, _, _, _, _, _)
\* the for loop of materializeAttachmentsInCWD over atts[i..], with the
\* directory `files`, the records `acc` and the writes `wr` so far;
\* failAt is the entry whose fs.writeFileSync throws (0: none)
matLoop(atts, i, files, acc, wr, failAt) ==
    IF i > Len(atts) THEN [fs |-> files, saved |-> acc, writes |-> wr]
    ELSE
      LET att   == atts[i]
          fname == sanitizeFilename(att.filename)
          bytes == DecodedLen(att.data)
          dest  == uniquify(files, fname)
      IN  IF att.kind = "bad" THEN matLoop(atts, i + 1, files, acc, wr, failAt)
          ELSE IF att.data = <<>> THEN matLoop(atts, i + 1, files, acc, wr, failAt)
          ELSE IF bytes > ATTACH_MAX_BYTES THEN matLoop(atts, i + 1, files, acc, wr, failAt)
          ELSE IF i = failAt THEN matLoop(atts, i + 1, files, acc, wr, failAt)
          ELSE matLoop(atts, i + 1, files \cup {dest},
                       Append(acc, [filename |-> dest, bytes |-> bytes,
                                    mime |-> IF att.mime = "" THEN OctetStream ELSE att.mime,
                                    entry |-> i]),
                       Append(wr, WriteEv(dest, existsSync(files, dest))),
                       failAt)

\* the list without the slice
sliceAtts_NoCap(atts) == atts

\* parsed.attachments.slice(0, ATTACH_MAX_FILES)
sliceAtts(atts) == Take(atts, ATTACH_MAX_FILES)

\* the materializer with the slice one entry short
materialize_CapOffByOne(atts, files, failAt) ==
    matLoop(Take(atts, ATTACH_MAX_FILES - 1), 1, files, <<>>, <<>>, failAt)

\* materializeAttachmentsInCWD(parsed) in the directory `files`
materializeAttachmentsInCWD(atts, files, failAt) ==
    matLoop(sliceAtts(atts), 1, files, <<>>, <<>>, failAt)

----------------------------------------------------------------------------
(* Callback URLs *)

Chars_hooks_slack_com == <<"h","o","o","k","s",".","s","l","a","c","k",".","c","o","m">>
Chars_notslack_com == <<"n","o","t","s","l","a","c","k",".","c","o","m">>
Chars_slack_com == <<"s","l","a","c","k",".","c","o","m">>

\* The value of a response_url: absent (NoUrl), or a value that
\* new URL() accepts, with its hostname, or one that it rejects
\* (a string that is no absolute URL, a number, true).
UrlSlack == [set |-> TRUE, ok |-> TRUE, host |-> Chars_hooks_slack_com]
UrlLookalike == [set |-> TRUE, ok |-> TRUE, host |-> Chars_notslack_com]
UrlOther == [set |-> TRUE, ok |-> TRUE, host |-> <<"x">>]
UrlBad == [set |-> TRUE, ok |-> FALSE, host |-> <<>>]

\* host.endsWith(suffix)
endsWith(host, suffix) ==
    /\ Len(suffix) <= Len(host)
    /\ SubSeq(host, Len(host) - Len(suffix) + 1, Len(host)) = suffix

\* (parsed.response_url) || (parsed.slack.response_url) || null
responseUrlOf(r) == IF r.respUrl.set THEN r.respUrl ELSE r.slackUrl

\* ?async=1, or Prefer: respond-async
forceAsyncOf(r) == r.asyncQ \/ r.prefer

\* the mode query parameter before the field of the body
modeOf_QueryFirst(r) == IF r.modeQ # "" THEN r.modeQ ELSE r.mode

\* (parsed && parsed.mode) || url.searchParams.get("mode") || "": a mode
\* field that is absent or falsy (the empty string) gives way to the query
modeOf(r) == IF r.mode # "" THEN r.mode ELSE r.modeQ

\* mode === "qa_blocks" || (mode === "qa" && SLACK_BLOCKS_DEFAULT)
blocksMode(r, e) == modeOf(r) = "qa_blocks" \/ (modeOf(r) = "qa" /\ e.blocksDefault)

----------------------------------------------------------------------------
(* Reasoning engine *)

NoChild == [proc |-> "none", alive |-> FALSE, timer |-> FALSE, killed |-> FALSE, settled |-> FALSE]
\* a child just spawned, its promise pending; timer: a kill timer is armed
Spawned(proc, timer) ==
    [proc |-> proc, alive |-> TRUE, timer |-> timer, killed |-> FALSE, settled |-> FALSE]

NoResult == [ok |-> FALSE, reply |-> "undefined", blocks |-> FALSE, detail |-> <<>>]

\* what runGeminiProcess resolves with: { stdout, stderr, code }
ProcRes(code, out, err) == [code |-> code, stdout |-> out, stderr |-> err]

\* extractBlocks(reply) is an array: the output parses as JSON with an
\* array field blocks
hasBlocks(out) == out = "blocksjson"

\* the message of the error runGemini throws on a code other than 0:
\* res.stderr || `gemini exit ${res.code}`
errorMessage(res) == IF res.stderr # <<>> THEN res.stderr ELSE <<"gemini exit", res.code>>

\* doWork of the full listener on what the engine resolved with:
\* runGemini returns stdout on code 0 and throws otherwise, and doWork
\* turns the error into a failure reply
doWork(res, wantBlocks) ==
    IF res.code = "0"
    THEN IF wantBlocks /\ hasBlocks(res.stdout)
         THEN [ok |-> TRUE, reply |-> "undefined", blocks |-> TRUE, detail |-> <<>>]
         ELSE [ok |-> TRUE, reply |-> res.stdout, blocks |-> FALSE, detail |-> <<>>]
    ELSE [ok |-> FALSE, reply |-> "failure", blocks |-> FALSE, detail |-> errorMessage(res)]

\* the reply and blocks of the body { ok, reply: result.reply || null,
\* blocks: result.blocks || null }, as one value
bodyVal(r) ==
    IF r.blocks THEN "blocks"
    ELSE IF r.reply \in {"undefined", ""} THEN "null" ELSE r.reply

\* the text and blocks postSlack is given
slackVal(r) ==
    IF r.blocks THEN "blocks"
    ELSE IF r.reply = "undefined" THEN "" ELSE r.reply

\* postJSON(url, payload): new URL(url) throws on a value it rejects,
\* before any request is made
postJSON(url, schema, ok, val) ==
    IF url.ok THEN <<PostEv(url, schema, ok, val)>> ELSE <<ThrowEv("invalid_url")>>

----------------------------------------------------------------------------
(* The handler of the full listener, between two awaits *)

NoPrompt == [shape |-> "none"]

\* the prompt shape the handler selects for a JSON request
promptOf(r, e) ==
    [shape |-> IF blocksMode(r, e) THEN "blocks"
               ELSE IF modeOf(r) = "qa" THEN "qa" ELSE "ops"]

Section(kind, name) == [kind |-> kind, name |-> name]

\* the loop taking the last audio file of sv at or after i first
NextAudio_Last(sv, i) ==
    LET A == {j \in i..Len(sv) : isAudio(sv[j].filename)}
    IN  IF A = {} THEN 0 ELSE CHOOSE j \in A : \A k \in A : j >= k

\* index of the first audio file of sv at or after i, 0 when there is none
NextAudio(sv, i) ==
    LET A == {j \in i..Len(sv) : isAudio(sv[j].filename)}
    IN  IF A = {} THEN 0 ELSE CHOOSE j \in A : \A k \in A : j <= k

\* startEngine that leaves the acknowledgment of the asynchronous branch
\* to the end of the background work
startEngine_NoAck(text, tr, r, e) ==
    [pc |-> "gemini_wait", audioIdx |-> 0, requestText |-> text, prompt |-> promptOf(r, e),
     child |-> Spawned("gemini", TRUE),
     trace |-> Append(tr, SpawnEv("gemini", NoName))]

\* the handler from the composition of the prompt to the await of the
\* reasoning engine: the prompt, the 202 of the asynchronous branch, and
\* the spawn of runGeminiProcess with its kill timer
startEngine(text, tr, r, e) ==
    [pc |-> "gemini_wait", audioIdx |-> 0, requestText |-> text, prompt |-> promptOf(r, e),
     child |-> Spawned("gemini", TRUE),
     trace |-> tr \o (IF responseUrlOf(r).set \/ forceAsyncOf(r)
                      THEN <<Res(202, "accepted", "true", "")>> ELSE <<>>)
                 \o <<SpawnEv("gemini", NoName)>>]

RECURSIVE audioLoop(_, _, _, _, _, _)
\* the audio loop from file i on, to its next await: each audio file calls
\* transcribeAudioWithWhisper, which looks the executable up (spawnSync
\* which) and returns "" when there is none, or spawns it and awaits close
audioLoop(sv, i, text, tr, r, e) ==
    LET j == NextAudio(sv, i)
    IN  IF j = 0 THEN startEngine(text, tr, r, e)
        ELSE IF ~e.whisperFound
        THEN audioLoop(sv, j + 1, Append(text, Section("warning", sv[j].filename)),
                       Append(tr, SpawnEv("which", NoName)), r, e)
        ELSE [pc |-> "whisper_wait", audioIdx |-> j, requestText |-> text, prompt |-> NoPrompt,
              child |-> Spawned("whisper", TRUE),
              trace |-> tr \o <<SpawnEv("which", NoName), SpawnEv("whisper", sv[j].filename)>>]

\* the asynchronous delivery of a result: nothing without a callback URL;
\* the chat schema for a host ending in slack.com, the generic object
\* otherwise; new URL throws on a rejected value, and so does the postJSON
\* of the catch block
deliverAsync(url, res) ==
    IF ~url.set THEN <<>>
    ELSE IF url.ok /\ endsWith(url.host, Chars_slack_com)
    THEN postJSON(url, "slack", BoolStr(res.ok), slackVal(res))
    ELSE postJSON(url, "generic", BoolStr(res.ok), bodyVal(res))

\* the synchronous delivery: always 200
deliverSync(res) == <<Res(200, "result", BoolStr(res.ok), bodyVal(res))>>

\* the handler after doWork, for a JSON request
deliverJson(r, res) ==
    IF responseUrlOf(r).set \/ forceAsyncOf(r)
    THEN deliverAsync(responseUrlOf(r), res)
    ELSE deliverSync(res)

\* /\bblocks\b/.test(text) || SLACK_BLOCKS_DEFAULT
wantsBlocks(r, e) == r.text = "use blocks" \/ e.blocksDefault

\* the slash command branch after the engine: the answer, in_channel, or
\* the error, ephemeral; a postSlack that throws in the try block is caught
\* and the postSlack of the catch block throws again
deliverForm(r, e, pres) ==
    IF pres.code = "0"
    THEN postJSON(r.respUrl, "slack", "true",
                  IF wantsBlocks(r, e) /\ hasBlocks(pres.stdout) THEN "blocks" ELSE pres.stdout)
    ELSE postJSON(r.respUrl, "slack", "false", "error")

\* a trace ends in an escaped error
Threw(tr) == tr # <<>> /\ tr[Len(tr)].e = "throw"

----------------------------------------------------------------------------
(* Requests *)

\* all sequences over S of length at most n
SeqsUpTo(S, n) == UNION {[1..k -> S] : k \in 0..n}

\* a base64 payload of n characters of the alphabet
RECURSIVE B64(_)
B64(n) == IF n = 0 THEN <<>> ELSE Append(B64(n - 1), "A")

Name_clip_mp3 == <<"c","l","i","p",".","m","p","3">>
Name_a_t == <<"a",".","t">>

\* a JSON request without callback, mode or attachments
BaseReq ==
    [ct |-> "json", jsonOk |-> TRUE, respUrl |-> NoUrl, slackUrl |-> NoUrl,
     asyncQ |-> FALSE, prefer |-> FALSE, hostOk |-> TRUE, mode |-> "", modeQ |-> "",
     text |-> "hello", attachments |-> <<>>, ioFailAt |-> 0]

Urls == {NoUrl, UrlSlack, UrlLookalike, UrlOther, UrlBad}

\* response_url and slack.response_url of a JSON body
UrlPairs ==
    {<<u, NoUrl>> : u \in Urls} \cup {<<NoUrl, UrlSlack>>, <<NoUrl, UrlBad>>, <<UrlOther, UrlSlack>>}

\* ?async=1 and Prefer: respond-async
AsyncSignals == {<<FALSE, FALSE>>, <<TRUE, FALSE>>, <<FALSE, TRUE>>}

\* the body's mode and the mode query parameter
Modes == {<<"", "">>, <<"qa", "">>, <<"qa_blocks", "">>, <<"", "qa">>}

\* attachment entries of the requests of Spec: an audio file and another
SpecEntries ==
    { Att("obj", Name_clip_mp3, B64(3), "audio/mpeg"), Att("obj", Name_a_t, B64(3), "") }

\* slash commands
FormReqs ==
    {[BaseReq EXCEPT !.ct = "form", !.respUrl = u, !.text = t] :
        u \in Urls, t \in {"hello", "use blocks"}}

\* bodies that declare JSON and do not parse
InvalidJsonReqs ==
    {[BaseReq EXCEPT !.jsonOk = FALSE, !.asyncQ = a, !.hostOk = h] : a \in BOOLEAN, h \in BOOLEAN}

\* bodies of another content type: parsed is { raw }
OtherCtReqs ==
    {[BaseReq EXCEPT !.ct = "other", !.asyncQ = s[1], !.prefer = s[2], !.hostOk = h, !.modeQ = m] :
        s \in AsyncSignals, h \in BOOLEAN, m \in {"", "qa"}}

JsonReqs ==
    {[BaseReq EXCEPT !.respUrl = u[1], !.slackUrl = u[2], !.asyncQ = s[1], !.prefer = s[2],
                     !.hostOk = h, !.mode = m[1], !.modeQ = m[2], !.attachments = a] :
        u \in UrlPairs, s \in AsyncSignals, h \in BOOLEAN, m \in Modes,
        a \in SeqsUpTo(SpecEntries, MaxAtts)}

SpecReqs == FormReqs \cup InvalidJsonReqs \cup OtherCtReqs \cup JsonReqs

Envs == [blocksDefault : BOOLEAN, whisperFound : BOOLEAN]

\* the request can reach a read of SLACK_BLOCKS_DEFAULT
ReadsBlocksDefault(r) == r.ct = "form" \/ (r.ct = "json" /\ r.jsonOk /\ modeOf(r) = "qa")

\* the request can reach the lookup of the transcription engine
ReadsWhisper(r) ==
    r.ct = "json" /\ r.jsonOk /\ \E i \in 1..Len(r.attachments) : isAudio(r.attachments[i].filename)

\* the state when the body of a request has been read, before the `end`
\* handler runs; a setting the request never reads takes one value
InitWith(variants, reqs, dirs) ==
    /\ server = ServerUp
    /\ variant \in variants
    /\ req \in reqs
    /\ env \in {e \in Envs : (e.blocksDefault => ReadsBlocksDefault(req))
                              /\ (~e.whisperFound => ReadsWhisper(req))}
    /\ fs \in dirs
    /\ pc = "received"
    /\ saved = <<>>
    /\ audioIdx = 0
    /\ requestText = <<>>
    /\ prompt = NoPrompt
    /\ child = NoChild
    /\ result = NoResult
    /\ trace = <<>>

Init == InitWith({"full"}, SpecReqs, {{}})

----------------------------------------------------------------------------
(* Actions of the full listener *)

\* the handler's local state after a run to its next await
Continue(nx) ==
    /\ pc' = nx.pc
    /\ audioIdx' = nx.audioIdx
    /\ requestText' = nx.requestText
    /\ prompt' = nx.prompt
    /\ child' = nx.child
    /\ trace' = nx.trace

\* `end` of a form-encoded request: the private acknowledgment, then
\* runGemini on the slash command prompt
EndForm ==
    /\ pc = "received" /\ variant = "full"
    /\ req.ct = "form"
    /\ trace' = trace \o <<Res(200, "working", "na", ""), SpawnEv("gemini", NoName)>>
    /\ prompt' = [shape |-> IF wantsBlocks(req, env) THEN "blocks" ELSE "slash"]
    /\ child' = Spawned("gemini", TRUE)
    /\ pc' = "gemini_wait"
    /\ UNCHANGED <<server, variant, env, req, fs, saved, audioIdx, requestText, result>>

\* EndInvalidJson that goes on with the body kept as { raw }
EndInvalidJson_KeepRaw ==
    /\ pc = "received" /\ variant = "full"
    /\ req.ct = "json" /\ ~req.jsonOk
    /\ trace' = trace \o <<SpawnEv("gemini", NoName)>>
    /\ child' = Spawned("gemini", TRUE)
    /\ pc' = "gemini_wait"
    /\ UNCHANGED <<server, variant, env, req, fs, saved, audioIdx, requestText, prompt, result>>

\* `end` of a request that declares JSON and does not parse
EndInvalidJson ==
    /\ pc = "received" /\ variant = "full"
    /\ req.ct = "json" /\ ~req.jsonOk
    /\ trace' = trace \o <<Res(200, "invalid_json", "false", "invalid_json")>>
    /\ pc' = "done"
    /\ UNCHANGED <<server, variant, env, req, fs, saved, audioIdx, requestText, prompt, child, result>>

\* `end` of any other request: materialize, read the callback URL and the
\* query (new URL throws on a Host header that gives no valid base), then
\* the audio loop up to its first await
EndEvent ==
    /\ pc = "received" /\ variant = "full"
    /\ req.ct # "form" /\ (req.ct = "json" => req.jsonOk)
    /\ LET m == materializeAttachmentsInCWD(
                    IF req.ct = "json" THEN req.attachments ELSE <<>>, fs, req.ioFailAt)
       IN  /\ fs' = m.fs
           /\ saved' = m.saved
           /\ IF req.hostOk
              THEN Continue(audioLoop(m.saved, 1, <<>>, trace \o m.writes, req, env))
              ELSE /\ trace' = trace \o m.writes \o <<ThrowEv("invalid_base_url")>>
                   /\ pc' = "threw"
                   /\ UNCHANGED <<audioIdx, requestText, prompt, child>>
    /\ UNCHANGED <<server, variant, env, req, result>>

\* the kill timer of a transcription fires: SIGKILL, and the await goes on
\* until close
WhisperTimeout ==
    /\ pc = "whisper_wait" /\ child.alive /\ child.timer
    /\ child' = [child EXCEPT !.timer = FALSE, !.killed = TRUE]
    /\ trace' = Append(trace, KillEv("whisper"))
    /\ UNCHANGED <<server, variant, env, req, pc, fs, saved, audioIdx, requestText, prompt, result>>

\* codes a child closes with: null after a signal, negative after a spawn error
CloseCodes == {"0", "1", "null", "-2"}

\* a close of the transcription engine that lets a failure leave the
\* handler instead of returning ""
WhisperClose_AbortOnFailure(code, wrote, blank) ==
    /\ pc = "whisper_wait" /\ child.alive
    /\ code = "null" => child.killed
    /\ LET name == saved[audioIdx].filename
           exists == wrote \/ existsSync(fs, TxtName(name))
           text == Append(requestText, Section("transcript", name))
       IN  /\ blank => exists
           /\ fs' = IF wrote THEN fs \cup {TxtName(name)} ELSE fs
           /\ IF code = "0" /\ exists /\ ~blank
              THEN Continue(audioLoop(saved, audioIdx + 1, text, trace, req, env))
              ELSE /\ pc' = "threw"
                   /\ trace' = Append(trace, ThrowEv("transcription_failed"))
                   /\ child' = [child EXCEPT !.alive = FALSE, !.timer = FALSE]
                   /\ UNCHANGED <<audioIdx, requestText, prompt>>
    /\ UNCHANGED <<server, variant, env, req, saved, result>>

\* close of the transcription engine with `code`; wrote: it left its
\* artifact beside the audio file; blank: the artifact trims to ""
WhisperClose(code, wrote, blank) ==
    /\ pc = "whisper_wait" /\ child.alive
    /\ code = "null" => child.killed
    /\ LET name == saved[audioIdx].filename
           exists == wrote \/ existsSync(fs, TxtName(name))
           transcript == code = "0" /\ exists /\ ~blank
           text == Append(requestText,
                          Section(IF transcript THEN "transcript" ELSE "warning", name))
       IN  /\ blank => exists
           /\ fs' = IF wrote THEN fs \cup {TxtName(name)} ELSE fs
           /\ Continue(audioLoop(saved, audioIdx + 1, text, trace, req, env))
    /\ UNCHANGED <<server, variant, env, req, saved, result>>

\* the continuation of the await of the engine, once the promise of
\* runGeminiProcess is resolved with pres; tr: the trace so far
Settle(pres, tr) ==
    LET res == doWork(pres, blocksMode(req, env))
        out == IF req.ct = "form" THEN deliverForm(req, env, pres) ELSE deliverJson(req, res)
    IN  /\ result' = IF req.ct = "form" THEN result ELSE res
        /\ trace' = tr \o out
        /\ pc' = IF Threw(out) THEN "threw" ELSE "done"

\* what the engine wrote, trimmed: text that is no JSON object with an array
\* field blocks, a JSON object with one, nothing
Stdouts == {"text", "blocksjson", ""}
Stderrs == {<<>>, <<"boom">>}

\* close of the reasoning engine, with any code and output: clears the
\* timer and resolves the promise, which has an effect the first time it
\* is resolved only
GeminiClose ==
    /\ variant = "full"
    /\ child.proc = "gemini" /\ child.alive
    /\ child' = [child EXCEPT !.alive = FALSE, !.timer = FALSE, !.settled = TRUE]
    /\ IF child.settled
       THEN UNCHANGED <<pc, result, trace>>
       ELSE \E code \in CloseCodes, out \in Stdouts, err \in Stderrs :
               /\ code = "null" => child.killed
               /\ Settle(ProcRes(code, out, err), trace)
    /\ UNCHANGED <<server, variant, env, req, fs, saved, audioIdx, requestText, prompt>>

\* error of the reasoning engine (it could not be spawned, or not be
\* killed): clears the timer and resolves with code -1 and the message
GeminiError ==
    /\ variant = "full"
    /\ child.proc = "gemini" /\ child.alive
    /\ child' = [child EXCEPT !.timer = FALSE, !.settled = TRUE]
    /\ IF child.settled
       THEN UNCHANGED <<pc, result, trace>>
       ELSE Settle(ProcRes("-1", "", <<"spawn error">>), trace)
    /\ UNCHANGED <<server, variant, env, req, fs, saved, audioIdx, requestText, prompt>>

\* a timer that kills the engine and resolves with what it has written as
\* if it had closed with code 0
GeminiTimeout_AsSuccess ==
    /\ variant = "full"
    /\ child.proc = "gemini" /\ child.alive /\ child.timer
    /\ child' = [child EXCEPT !.timer = FALSE, !.killed = TRUE, !.settled = TRUE]
    /\ \E out \in Stdouts, err \in Stderrs :
          Settle(ProcRes("0", out, err), Append(trace, KillEv("gemini")))
    /\ UNCHANGED <<server, variant, env, req, fs, saved, audioIdx, requestText, prompt>>

\* the timer of runGeminiProcess fires, whatever the engine has written:
\* SIGKILL and resolve with code 124
GeminiTimeout ==
    /\ variant = "full"
    /\ child.proc = "gemini" /\ child.alive /\ child.timer
    /\ child' = [child EXCEPT !.timer = FALSE, !.killed = TRUE, !.settled = TRUE]
    /\ IF child.settled
       THEN /\ trace' = Append(trace, KillEv("gemini"))
            /\ UNCHANGED <<pc, result>>
       ELSE \E out \in Stdouts, err \in Stderrs :
               Settle(ProcRes("124", out, err \o <<"[timeout]">>), Append(trace, KillEv("gemini")))
    /\ UNCHANGED <<server, variant, env, req, fs, saved, audioIdx, requestText, prompt>>

Next ==
    \/ EndForm
    \/ EndInvalidJson
    \/ EndEvent
    \/ WhisperTimeout
    \/ \E code \in CloseCodes, wrote \in BOOLEAN, blank \in BOOLEAN : WhisperClose(code, wrote, blank)
    \/ GeminiClose
    \/ GeminiError
    \/ GeminiTimeout

Spec == Init /\ [][Next]_vars

----------------------------------------------------------------------------
(* The simple listener, scripts/listen.js: no attachments, no modes, no    *)
(* timer on the engine and no listener for its error event                 *)

\* requests of the simple listener: what it reads of a request
SimpleReqs ==
    {[BaseReq EXCEPT !.ct = "form", !.respUrl = u] : u \in Urls}
      \cup InvalidJsonReqs
      \cup {[BaseReq EXCEPT !.ct = "other", !.asyncQ = s[1], !.prefer = s[2], !.hostOk = h] :
              s \in AsyncSignals, h \in BOOLEAN}
      \cup {[BaseReq EXCEPT !.respUrl = u[1], !.slackUrl = u[2], !.asyncQ = s[1],
                            !.prefer = s[2], !.hostOk = h] :
              u \in UrlPairs, s \in AsyncSignals, h \in BOOLEAN}

\* a body that declares JSON and does not parse is kept as { raw }, and so
\* is a body of another content type: neither has a response_url
simpleResponseUrl(r) == IF r.ct = "json" /\ r.jsonOk THEN responseUrlOf(r) ELSE NoUrl

\* postSlack or postJSON of the background branch: the schema follows the
\* host; new URL throws on a rejected value and the catch block's postJSON
\* throws again
simplePost(url, ok, val) ==
    postJSON(url, IF url.ok /\ endsWith(url.host, Chars_slack_com) THEN "slack" ELSE "generic",
             ok, val)

\* what the handler does once runGemini has resolved (code 0, the trimmed
\* output) or rejected (any other code)
simpleDeliver(r, pres) ==
    LET ok  == pres.code = "0"
        val == IF ok THEN pres.stdout ELSE "error"
        url == simpleResponseUrl(r)
    IN  IF r.ct = "form" THEN postJSON(r.respUrl, "slack", BoolStr(ok), val)
        ELSE IF url.set THEN simplePost(url, BoolStr(ok), val)
        ELSE IF forceAsyncOf(r) THEN <<>>
        ELSE <<Res(IF ok THEN 200 ELSE 500, "result", BoolStr(ok), val)>>

\* `end` of a form-encoded request: the acknowledgment, then runGemini
SimpleEndForm ==
    /\ pc = "received" /\ variant = "simple"
    /\ req.ct = "form"
    /\ trace' = trace \o <<Res(200, "working", "na", ""), SpawnEv("gemini", NoName)>>
    /\ prompt' = [shape |-> "slash"]
    /\ child' = Spawned("gemini", FALSE)
    /\ pc' = "gemini_wait"
    /\ UNCHANGED <<server, variant, env, req, fs, saved, audioIdx, requestText, result>>

\* `end` of any other request: parse (never failing), read the callback
\* URL and the query (new URL throws on a Host header that gives no valid
\* base), acknowledge with 202 in the asynchronous branch, then runGemini
SimpleEndEvent ==
    /\ pc = "received" /\ variant = "simple"
    /\ req.ct # "form"
    /\ IF req.hostOk
       THEN /\ trace' = trace \o (IF simpleResponseUrl(req).set \/ forceAsyncOf(req)
                                  THEN <<Res(202, "accepted", "true", "")>> ELSE <<>>)
                              \o <<SpawnEv("gemini", NoName)>>
            /\ prompt' = [shape |-> "ops"]
            /\ child' = Spawned("gemini", FALSE)
            /\ pc' = "gemini_wait"
       ELSE /\ trace' = Append(trace, ThrowEv("invalid_base_url"))
            /\ pc' = "threw"
            /\ UNCHANGED <<prompt, child>>
    /\ UNCHANGED <<server, variant, env, req, fs, saved, audioIdx, requestText, result>>

\* close of the engine: the only event runGemini listens to
SimpleGeminiClose ==
    /\ variant = "simple" /\ pc = "gemini_wait"
    /\ child.proc = "gemini" /\ child.alive
    /\ child' = [child EXCEPT !.alive = FALSE, !.settled = TRUE]
    /\ \E code \in CloseCodes \ {"null"}, out \in Stdouts, err \in Stderrs :
          LET pres == ProcRes(code, out, err)
              post == simpleDeliver(req, pres)
          IN  /\ result' = [ok |-> code = "0",
                            reply |-> IF code = "0" THEN out ELSE "failure",
                            blocks |-> FALSE,
                            detail |-> IF code = "0" THEN <<>> ELSE errorMessage(pres)]
              /\ trace' = trace \o post
              /\ pc' = IF Threw(post) THEN "threw" ELSE "done"
    /\ UNCHANGED <<server, variant, env, req, fs, saved, audioIdx, requestText, prompt>>

\* error of the engine (it could not be spawned): the child has no
\* listener for the event, which is thrown as an uncaught exception
SimpleGeminiError ==
    /\ variant = "simple" /\ pc = "gemini_wait"
    /\ child.proc = "gemini" /\ child.alive
    /\ child' = [child EXCEPT !.alive = FALSE]
    /\ trace' = Append(trace, ThrowEv("uncaught_error_event"))
    /\ pc' = "crashed"
    /\ UNCHANGED <<server, variant, env, req, fs, saved, audioIdx, requestText, prompt, result>>

\* both listeners
InitAny == InitWith({"full"}, SpecReqs, {{}}) \/ InitWith({"simple"}, SimpleReqs, {{}})

NextAny ==
    \/ Next
    \/ SimpleEndForm
    \/ SimpleEndEvent
    \/ SimpleGeminiClose
    \/ SimpleGeminiError

SpecAny == InitAny /\ [][NextAny]_vars

----------------------------------------------------------------------------
(* The materializer on its own: synchronous JSON requests over a richer    *)
(* set of attachment lists and working directories                         *)

Name_a_1_t == <<"a","-","1",".","t">>
Name_dotdot == <<".",".">>

\* payloads: none, one that decodes to nothing, one of exactly the ceiling,
\* the longest
MatPayloads == {B64(0), <<"!">>, B64(3), B64(MaxB64Len)}

MatEntries ==
    {Att("obj", Name_a_t, d, "") : d \in MatPayloads \ {<<"!">>}}
      \cup { Att("obj", Name_a_1_t, B64(3), "text/plain"),
             Att("obj", Name_dotdot, <<"!">>, ""),
             Att("bad", <<>>, <<>>, "") }

MatReqs ==
    {[BaseReq EXCEPT !.attachments = a, !.ioFailAt = f] :
        a \in SeqsUpTo(MatEntries, MaxMatAtts), f \in {0, 1}}

\* what the working directory holds when the request arrives
MatDirs == {{}, {Name_a_t}, {Name_a_t, Name_a_1_t}}

InitMat == InitWith({"full"}, MatReqs, MatDirs)

NextMat ==
    \/ EndEvent
    \/ GeminiClose
    \/ GeminiError
    \/ GeminiTimeout

SpecMat == InitMat /\ [][NextMat]_vars

----------------------------------------------------------------------------
(* The transcription of audio attachments on its own: JSON requests with   *)
(* attachments, in a directory that may hold an artifact of an earlier run *)

Name_clip_txt == TxtName(Name_clip_mp3)

TranscribeReqs ==
    {[BaseReq EXCEPT !.respUrl = u, !.hostOk = h, !.attachments = at] :
        u \in {NoUrl, UrlOther, UrlBad}, h \in BOOLEAN,
        at \in SeqsUpTo(SpecEntries, MaxAtts)}

TranscribeDirs == {{}, {Name_clip_txt}}

InitTranscribe == InitWith({"full"}, TranscribeReqs, TranscribeDirs)

NextTranscribe ==
    \/ EndEvent
    \/ WhisperTimeout
    \/ \E code \in CloseCodes, wrote \in BOOLEAN, blank \in BOOLEAN : WhisperClose(code, wrote, blank)
    \/ GeminiClose
    \/ GeminiError
    \/ GeminiTimeout

SpecTranscribe == InitTranscribe /\ [][NextTranscribe]_vars

----------------------------------------------------------------------------
(* Properties of the delivery of the answer *)

\* the request is an event whose body is accepted: valid JSON, or a body
\* of another content type that is no form
Accepted == req.ct # "form" /\ (req.ct = "json" => req.jsonOk)

\* the handler of the request has ended, normally or with an escaped error
Ended == pc \in {"done", "threw", "crashed"}

\* the request takes the asynchronous branch
Asynchronous == responseUrlOf(req).set \/ forceAsyncOf(req)

Responses == Where(trace, "res")
Posts == Where(trace, "post")
Spawns == {i \in Where(trace, "spawn") : trace[i].what \in {"whisper", "gemini"}}
Acks202 == {i \in Responses : trace[i].status = 202}

\* the 202 is in the trace before position i
AckedBefore(i) == \E j \in Acks202 : j < i

\* C1: in the full listener, an accepted request without callback URL and
\* without forced-async signal whose handler has ended was answered on its
\* own connection, once, with status 200 and the body {ok, reply, blocks}
\* of the engine's outcome, and nothing was posted
C1_SyncAlways200 ==
    (variant = "full" /\ Accepted /\ ~Asynchronous /\ Ended)
        => /\ Cardinality(Responses) = 1
           /\ \A i \in Responses :
                 /\ trace[i].status = 200 /\ trace[i].what = "result"
                 /\ trace[i].ok = BoolStr(result.ok) /\ trace[i].val = bodyVal(result)
           /\ Posts = {}

\* C2: an accepted request whose handler has run to its end took exactly
\* one delivery path: the answer on the original connection and no POST,
\* or (callback URL present, or async forced) the 202 alone on the
\* original connection and one POST of the answer to the callback URL
C2_ExactlyOnePath ==
    (variant = "full" /\ Accepted /\ pc = "done")
        => LET answers == {i \in Responses : trace[i].what = "result"}
           IN  IF Asynchronous
               THEN /\ answers = {}
                    /\ Cardinality(Acks202) = 1 /\ Responses = Acks202
                    /\ Cardinality(Posts) = 1
                    /\ \A i \in Posts : trace[i].url = responseUrlOf(req)
               ELSE /\ Cardinality(answers) = 1 /\ Responses = answers
                    /\ Posts = {}

\* C3: for a JSON request with a callback URL, in either listener, the
\* 202 is on the original connection before any POST to the callback URL,
\* whatever the engine did, and already when the engine is awaited
C3_AckBeforeCallback ==
    (req.ct = "json" /\ req.jsonOk /\ responseUrlOf(req).set)
        => /\ \A i \in Posts : AckedBefore(i)
           /\ pc = "gemini_wait" => Acks202 # {}
           /\ Cardinality(Acks202) <= 1

\* C3 happens: a callback POST of a failure (non-zero exit or timeout)
\* has followed the 202 of a JSON request
C3_Witness ==
    /\ req.ct = "json" /\ req.jsonOk /\ responseUrlOf(req).set
    /\ \E i \in Posts : trace[i].ok = "false" /\ AckedBefore(i)
    /\ pc = "done"

C5_AckThenOnePost ==
    (req.ct = "form" /\ req.respUrl.set)
        => /\ \A i \in Spawns :
                 \E j \in Responses : j < i /\ trace[j].status = 200 /\ trace[j].what = "working"
           /\ Ended => /\ Cardinality(Posts) = 1
                       /\ \A i \in Posts : /\ trace[i].url = req.respUrl
                                           /\ trace[i].what = "slack"

\* C6: in the full listener a request that declares JSON and does not
\* parse is answered 200 with {ok: false, reply: invalid JSON} and nothing
\* else happens: no file, no child process, no POST
C6_InvalidJsonSoftFailure ==
    (variant = "full" /\ req.ct = "json" /\ ~req.jsonOk /\ pc # "received")
        => /\ trace = <<Res(200, "invalid_json", "false", "invalid_json")>>
           /\ pc = "done"
           /\ child = NoChild /\ saved = <<>> /\ fs = {}

\* C6 happens: a body that does not parse has been answered
C6_Witness ==
    /\ variant = "full" /\ req.ct = "json" /\ ~req.jsonOk
    /\ pc = "done" /\ Responses # {}

----------------------------------------------------------------------------
(* Properties of the Attachment Materializer *)

\* the attachment entries the request submits
Submitted == IF req.ct = "json" /\ req.jsonOk THEN req.attachments ELSE <<>>

\* the materializer has run
Materialized == pc # "received" /\ req.ct # "form" /\ (req.ct = "json" => req.jsonOk)

\* entry i is one the materializer can write: an object with string fields,
\* a payload that is not empty and decodes to at most the ceiling, and a
\* write that succeeds
Acceptable(i) ==
    /\ Submitted[i].kind = "obj"
    /\ Submitted[i].data # <<>>
    /\ DecodedLen(Submitted[i].data) <= ATTACH_MAX_BYTES
    /\ i # req.ioFailAt

IsWrite(ev) == ev.e = "write"

\* the file writes of the request, in order
Writes == SelectSeq(trace, IsWrite)

\* C7: the number of Materialized Files of a request is at most
\* ATTACH_MAX_FILES, whatever the entries submitted.
C7_CountAtMostMax == Len(saved) <= ATTACH_MAX_FILES

\* more entries than the ceiling were submitted and the ceiling is reached
C7_Witness ==
    /\ Materialized
    /\ Len(Submitted) > ATTACH_MAX_FILES
    /\ Len(saved) = ATTACH_MAX_FILES

\* C8 as claimed: more entries than ATTACH_MAX_FILES, at least
\* ATTACH_MAX_FILES of them acceptable: exactly ATTACH_MAX_FILES files.
C8_AnyAcceptable ==
    (/\ Materialized
     /\ Len(Submitted) > ATTACH_MAX_FILES
     /\ Cardinality({i \in 1..Len(Submitted) : Acceptable(i)}) >= ATTACH_MAX_FILES)
    => Len(saved) = ATTACH_MAX_FILES

\* C8 as amended: more entries than ATTACH_MAX_FILES, the first
\* ATTACH_MAX_FILES of them all acceptable: exactly these are materialized, in
\* order, nothing else is written, and the response on the connection is
\* the engine's result and nothing about the entries dropped.
C8_FirstEntries ==
    (/\ Materialized
     /\ Len(Submitted) > ATTACH_MAX_FILES
     /\ \A i \in 1..ATTACH_MAX_FILES : Acceptable(i))
    => /\ Len(saved) = ATTACH_MAX_FILES
       /\ \A k \in 1..ATTACH_MAX_FILES : saved[k].entry = k
       /\ Len(Writes) = ATTACH_MAX_FILES
       /\ \A i \in Where(trace, "res") :
              trace[i] = Res(200, "result", BoolStr(result.ok), bodyVal(result))

\* the first entries are acceptable, an acceptable one is dropped, and the
\* response has been written
C8_Witness ==
    /\ Materialized
    /\ Len(Submitted) > ATTACH_MAX_FILES
    /\ \A i \in 1..(ATTACH_MAX_FILES + 1) : Acceptable(i)
    /\ Where(trace, "res") # {}

\* C9: every Materialized File has at most ATTACH_MAX_BYTES bytes, the
\* decoded size of its entry; the files written are the Materialized Files,
\* so an entry over the ceiling is neither written nor listed; and every
\* acceptable entry within the first ATTACH_MAX_FILES is materialized,
\* whatever precedes it (an entry over the ceiling included), a payload of
\* exactly the ceiling being acceptable.
C9_SizeCeiling ==
    /\ \A k \in 1..Len(saved) :
          /\ saved[k].bytes <= ATTACH_MAX_BYTES
          /\ saved[k].bytes = DecodedLen(Submitted[saved[k].entry].data)
    /\ Len(Writes) = Len(saved)
    /\ \A k \in 1..Len(saved) : Writes[k].name = saved[k].filename
    /\ Materialized =>
          \A i \in 1..Min(Len(Submitted), ATTACH_MAX_FILES) :
              Acceptable(i) => \E k \in 1..Len(saved) : saved[k].entry = i

\* an entry over the ceiling, and after it one of exactly the ceiling that
\* is materialized
C9_Witness ==
    /\ Materialized
    /\ \E i \in 1..Len(Submitted), k \in 1..Len(saved) :
          /\ i < saved[k].entry
          /\ Submitted[i].kind = "obj"
          /\ DecodedLen(Submitted[i].data) > ATTACH_MAX_BYTES
          /\ saved[k].bytes = ATTACH_MAX_BYTES

\* the working directory before the k-th Materialized File was written
\* (a directory only the materializer writes to)
DirBefore(k) == fs \ {saved[m].filename : m \in k..Len(saved)}

\* <stem>-<n><ext> for the name f
Suffixed(f, n) == basename(f, extname(f)) \o <<"-">> \o NumStr(n) \o extname(f)

\* C10: no write of the materializer goes to a path that exists; the k-th
\* file takes the sanitized name of its entry when that is free, and else
\* <stem>-<n><ext> with the smallest n >= 1 that is free; no two
\* Materialized Files have the same name.
C10_UniqueNames ==
    /\ \A i \in 1..Len(Writes) : Writes[i].val = "new"
    /\ \A k, m \in 1..Len(saved) : saved[k].filename = saved[m].filename => k = m
    /\ \A k \in 1..Len(saved) :
          LET f == sanitizeFilename(Submitted[saved[k].entry].filename)
              got == saved[k].filename
          IN  /\ ~existsSync(DirBefore(k), got)
              /\ ~existsSync(DirBefore(k), f) => got = f
              /\ existsSync(DirBefore(k), f) =>
                    \E n \in 1..(Cardinality(fs) + 1) :
                        /\ got = Suffixed(f, n)
                        /\ \A j \in 1..(n - 1) : existsSync(DirBefore(k), Suffixed(f, j))

\* two entries of one request with the same name, the second written under
\* a suffix greater than 1
C10_Witness ==
    \E k, m \in 1..Len(saved) :
        /\ k < m
        /\ Submitted[saved[k].entry].filename = Submitted[saved[m].entry].filename
        /\ saved[m].filename = Suffixed(sanitizeFilename(Submitted[saved[m].entry].filename), 2)

----------------------------------------------------------------------------
(* Properties of the failure policy of the materializer *)

\* the payload holds a character outside the base64 alphabet
Undecodable(d) == \E i \in 1..Len(d) : d[i] = "!"

\* entry i is malformed: no object with string fields, a payload that
\* cannot be decoded, or a write that fails
Malformed(i) ==
    \/ Submitted[i].kind = "bad"
    \/ Undecodable(Submitted[i].data)
    \/ i = req.ioFailAt

\* C11: a malformed entry produces no Materialized File, the entries
\* around it are still processed in order, and the request goes on to the
\* reasoning engine.
C11_MalformedSkipped ==
    Materialized =>
        /\ \A k \in 1..Len(saved) : ~Malformed(saved[k].entry)
        /\ \A k \in 1..Len(saved), m \in 1..Len(saved) :
              k < m => saved[k].entry < saved[m].entry
        /\ \A i \in 1..Min(Len(Submitted), ATTACH_MAX_FILES) :
              Acceptable(i) /\ ~Malformed(i) => \E k \in 1..Len(saved) : saved[k].entry = i
        /\ req.hostOk => \E i \in Where(trace, "spawn") : trace[i].what = "gemini"

----------------------------------------------------------------------------
(* Properties of the invocation of the reasoning engine *)

GeminiSpawns == {i \in Where(trace, "spawn") : trace[i].what = "gemini"}
GeminiKills == {i \in Where(trace, "kill") : trace[i].what = "gemini"}

\* the deliveries of the answer: the synchronous body and the callback POSTs
Deliveries == Posts \cup {i \in Responses : trace[i].what = "result"}

\* C12: the reasoning engine is spawned at most once per request and never
\* for a body rejected as invalid JSON; an engine whose timer fired while it
\* had not closed has been sent the kill signal, after its one spawn, and
\* what is delivered for that request is a failure.
C12_OneSpawnTimeoutFails ==
    /\ Cardinality(GeminiSpawns) <= 1
    /\ (req.ct = "json" /\ ~req.jsonOk) => GeminiSpawns = {}
    /\ (child.proc = "gemini" /\ child.killed) => GeminiKills # {}
    /\ \A k \in GeminiKills :
          /\ \E i \in GeminiSpawns : i < k
          /\ req.ct # "form" => result # NoResult /\ ~result.ok
          /\ \A i \in Deliveries : k < i /\ trace[i].ok = "false"

\* C12 happens: the timer fired on an engine that had not closed, and the
\* failure has been delivered
C12_Witness ==
    /\ GeminiKills # {}
    /\ pc = "done"
    /\ \E i \in Deliveries : trace[i].ok = "false"

----------------------------------------------------------------------------
(* Properties of the wait for a child process *)

\* the handler awaits a child process that has not closed
AwaitsChild == pc \in {"whisper_wait", "gemini_wait"} /\ child.alive

\* C13, as a property of finite runs: a child that never exits on its own
\* produces no event, so the request reaches delivery only through a
\* timer; in every listener a handler that awaits a child has a timer
\* armed for it, or the timer has fired and the child has been killed.
C13_TimerGuardsEveryWait == AwaitsChild => (child.timer \/ child.killed)

----------------------------------------------------------------------------
(* Properties of the transcription of audio files *)

\* the indices of the audio files of the Materialized Files, in order
AudioFiles == {k \in 1..Len(saved) : isAudio(saved[k].filename)}

\* the k-th audio file of the Materialized Files
AudioFile(k) ==
    LET A == AudioFiles
    IN  CHOOSE j \in A : Cardinality({m \in A : m <= j}) = k

IsAudioRec(rec) == isAudio(rec.filename)

\* the audio files of the Materialized Files, in order
AudioRecs == SelectSeq(saved, IsAudioRec)

\* the request text has one section for each audio file handled so far, in
\* the order of the files
SectionsFollowFiles ==
    LET audio == AudioRecs
    IN  /\ Len(requestText) <= Len(audio)
        /\ \A k \in 1..Len(requestText) : requestText[k].name = audio[k].filename

\* the step is the close of a transcription that failed (a code other than
\* 0, negative after a spawn error and null after the kill of the timer, or
\* no artifact beside the audio file) and adds the warning for the file,
\* after which the handler is in the next transcription or awaits the engine
FailedCloseWarns ==
    \A code \in CloseCodes, wrote \in BOOLEAN, blank \in BOOLEAN :
        (/\ WhisperClose(code, wrote, blank)
         /\ code # "0" \/ ~existsSync(fs', TxtName(saved[audioIdx].filename)))
        => /\ requestText' = Append(requestText, Section("warning", saved[audioIdx].filename))
           /\ pc' \in {"whisper_wait", "gemini_wait"}

\* C14: no failure of a transcription aborts the request. Without the
\* executable every section is a warning; a close that failed adds the
\* warning for its file; the only error that leaves the handler before the
\* engine is the one of the request URL; the engine is spawned when every
\* audio file has its section, and a request with a usable target that has
\* ended has its one delivery.
C14_FailureDegradesToWarning ==
    [][ /\ FailedCloseWarns
        /\ SectionsFollowFiles'
        /\ (~env.whisperFound => \A k \in 1..Len(requestText') : requestText'[k].kind = "warning")
        /\ (pc' = "threw" /\ GeminiSpawns' = {} => ~req.hostOk)
        /\ (GeminiSpawns' # {} /\ Accepted => Len(requestText') = Len(AudioRecs'))
        /\ (Accepted /\ pc' = "done" => result' # NoResult)
        /\ (Accepted /\ Ended' /\ req.hostOk /\ (~Asynchronous \/ responseUrlOf(req).ok)
              => Cardinality(Deliveries') = 1)
      ]_vars

\* C14 happens: a transcription failed, a later audio file was still
\* handled, and the answer has been delivered
C14_Witness ==
    /\ Len(requestText) = 2
    /\ requestText[1].kind = "warning" /\ env.whisperFound
    /\ pc = "done" /\ Deliveries # {}

\* C15: the close of a transcription with code 0 and the artifact beside
\* the audio file adds the transcript section for the file, and so no
\* warning for it, whatever the artifact holds, blank contents included.
C15_SuccessGivesTranscript ==
    [][ \A code \in CloseCodes, wrote \in BOOLEAN, blank \in BOOLEAN :
            (/\ WhisperClose(code, wrote, blank)
             /\ code = "0" /\ existsSync(fs', TxtName(saved[audioIdx].filename)))
            => requestText' = Append(requestText, Section("transcript", saved[audioIdx].filename))
      ]_vars

----------------------------------------------------------------------------
(* Properties of the order of the steps of a request *)

WhisperSpawns == {i \in Where(trace, "spawn") : trace[i].what = "whisper"}

\* the k-th spawn of the transcription engine in the trace
WhisperSpawn(k) == CHOOSE i \in WhisperSpawns : Cardinality({m \in WhisperSpawns : m <= i}) = k

\* C16: in a JSON request of the full listener every file is written
\* before any child process is started; the transcription engine is
\* started for the audio files in the order of the Materialized Files, the
\* next one only when the section of the previous one is in the request
\* text; the prompt is composed and the engine started once, after the
\* last transcription; and nothing is delivered before the engine's
\* invocation is settled.
C16_StepsInOrder ==
    (variant = "full" /\ Accepted) =>
        /\ \A w \in Where(trace, "write"), c \in Where(trace, "spawn") : w < c
        /\ Len(Writes) = Len(saved)
        /\ Cardinality(WhisperSpawns) <= Cardinality(AudioFiles)
        /\ \A k \in 1..Cardinality(WhisperSpawns) :
              trace[WhisperSpawn(k)].name = saved[AudioFile(k)].filename
        /\ env.whisperFound =>
              Cardinality(WhisperSpawns) = Len(requestText) + (IF pc = "whisper_wait" THEN 1 ELSE 0)
        /\ pc = "whisper_wait" => child.proc = "whisper" /\ child.alive
        /\ \A t \in WhisperSpawns, g \in GeminiSpawns : t < g
        /\ (prompt # NoPrompt) = (GeminiSpawns # {})
        /\ GeminiSpawns # {} => Len(requestText) = Cardinality(AudioFiles)
        /\ \A d \in Deliveries : child.settled /\ \A g \in GeminiSpawns : g < d
        /\ Deliveries # {} => GeminiSpawns # {}

\* C16 happens: files were written, two audio files were transcribed one
\* after the other, the engine ran and the answer was delivered
C16_Witness ==
    /\ variant = "full" /\ Accepted
    /\ Len(Writes) >= 2
    /\ Cardinality(WhisperSpawns) = 2
    /\ GeminiSpawns # {}
    /\ pc = "done" /\ Deliveries # {}

----------------------------------------------------------------------------
(* The Prompt Composer: a prompt is the sequence of its parts, each the    *)
(* value the code interpolates into the string                             *)

Part(kind, val) == [kind |-> kind, val |-> val]

\* pat occurs in s, both sequences of characters
Contains(s, pat) ==
    \E k \in 0..(Len(s) - Len(pat)) : \A m \in 1..Len(pat) : s[k + m] = pat[m]

Pat_authorization == <<"a","u","t","h","o","r","i","z","a","t","i","o","n">>
Pat_token == <<"t","o","k","e","n">>
Pat_cookie == <<"c","o","o","k","i","e">>
Pat_set_cookie == <<"s","e","t","-","c","o","o","k","i","e">>
Pat_api == <<"a","p","i">>
Pat_key == <<"k","e","y">>

\* /authorization|token|cookie|set-cookie|api[-_]key/i.test(k)
SensitiveName(k) ==
    LET lk == [m \in 1..Len(k) |-> LowerOf(k[m])]
    IN  \/ \E pat \in {Pat_authorization, Pat_token, Pat_cookie, Pat_set_cookie} : Contains(lk, pat)
        \/ \E sep \in {"-", "_"} : Contains(lk, Pat_api \o <<sep>> \o Pat_key)

\* redactHeaders(h): headers are a function from names to values
redactHeaders(h) == [k \in DOMAIN h |-> IF SensitiveName(k) THEN "[redacted]" ELSE h[k]]

\* listLocalFiles(saved): name, size and mime of each file
listLocalFiles(sv) ==
    IF sv = <<>> THEN <<>>
    ELSE <<Part("files", [k \in 1..Len(sv) |->
                 [filename |-> sv[k].filename, bytes |-> sv[k].bytes, mime |-> sv[k].mime]])>>

\* the request text of the handler: parsed.text and the sections the audio
\* loop appended
UserText(text, sections) == [text |-> text, sections |-> sections]
NoText == UserText("(no text)", <<>>)
Falsy(ut) == ut.text = "" /\ ut.sections = <<>>

\* buildQAPrompt(userText, context, saved)
buildQAPrompt(userText, context, sv) ==
    <<Part("qa_instructions", "")>>
      \o (IF context # "" THEN <<Part("context", context)>> ELSE <<>>)
      \o <<Part("question", IF Falsy(userText) THEN NoText ELSE userText)>>
      \o listLocalFiles(sv)

\* buildSlackBlocksPrompt(userText, context, saved)
buildSlackBlocksPrompt(userText, context, sv) ==
    <<Part("blocks_instructions", "")>>
      \o (IF context # "" THEN <<Part("context", context)>> ELSE <<>>)
      \o <<Part("user_message", IF Falsy(userText) THEN NoText ELSE userText)>>
      \o listLocalFiles(sv)

\* the parsed body as JSON.stringify prints it: every field of a JSON
\* body, the attachment entries with their payloads included; raw is
\* printed when LOG_BODY is set only
bodyJson(r, logBody) ==
    IF r.ct = "json"
    THEN [raw |-> "", text |-> r.text, context |-> r.context, mode |-> r.mode,
          attachments |-> r.attachments]
    ELSE [raw |-> IF logBody THEN "raw" ELSE "", text |-> "", context |-> "", mode |-> "",
          attachments |-> <<>>]

\* buildOpsPrompt(obj, headers, saved, userTextForOps) of the full listener
buildOpsPrompt(r, cfg, sv, userText) ==
    <<Part("ops_instructions", ""),
      Part("headers", IF cfg.logHeaders THEN r.headers ELSE redactHeaders(r.headers)),
      Part("body", bodyJson(r, cfg.logBody))>>
      \o listLocalFiles(sv)
      \o (IF Falsy(userText) THEN <<>> ELSE <<Part("request", userText)>>)

\* buildOpsPrompt(obj, headers) of the simple listener: the headers as
\* received, the body with raw
simpleOpsPrompt(r) ==
    <<Part("ops_instructions", ""), Part("headers", r.headers), Part("body", bodyJson(r, TRUE))>>

\* composePrompt that numbers its calls
composePrompt_Counted(cfg, taskPrompt) ==
    <<Part("call", Len(trace))>> \o taskPrompt

\* composePrompt(taskPrompt): the system text loaded at startup, if any
composePrompt(cfg, taskPrompt) ==
    IF cfg.system # "" THEN <<Part("system", cfg.system)>> \o taskPrompt ELSE taskPrompt

\* the prompt the handler of a JSON request passes to the engine
handlerPrompt(v, r, cfg, sv, sections) ==
    IF v = "simple" THEN simpleOpsPrompt(r)
    ELSE LET userText == UserText(IF r.ct = "json" THEN r.text ELSE "", sections)
             context  == IF r.ct = "json" THEN r.context ELSE ""
         IN  composePrompt(cfg,
                 IF blocksMode(r, cfg) THEN buildSlackBlocksPrompt(userText, context, sv)
                 ELSE IF modeOf(r) = "qa" THEN buildQAPrompt(userText, context, sv)
                 ELSE buildOpsPrompt(r, cfg, sv, userText))

----------------------------------------------------------------------------
(* The Prompt Composer on its own: the inputs of one request after the     *)
(* audio loop, composed MaxCompose times                                   *)

Name_authorization == Pat_authorization
Name_x_api_key == <<"x","-">> \o Pat_api \o <<"-">> \o Pat_key
Name_x_note == <<"x","-","n","o","t","e">>

\* request headers: two that carry a credential and one that does not
HeaderSets ==
    {[k \in {Name_authorization, Name_x_api_key, Name_x_note} |->
         IF k = Name_authorization THEN a ELSE IF k = Name_x_api_key THEN "k1" ELSE n] :
       a \in {"s1", "s2"}, n \in {"n1", "n2"}}

\* requests with the fields the composer reads
PromptReqs ==
    {[ct |-> c, jsonOk |-> TRUE, respUrl |-> NoUrl, slackUrl |-> NoUrl, asyncQ |-> FALSE,
      prefer |-> FALSE, hostOk |-> TRUE, mode |-> IF c = "json" THEN m ELSE "",
      modeQ |-> IF c = "json" THEN "" ELSE m, text |-> IF c = "json" THEN t ELSE "",
      attachments |-> IF c = "json" THEN at ELSE <<>>, ioFailAt |-> 0,
      context |-> IF c = "json" THEN cx ELSE "", headers |-> h] :
       c \in {"json", "other"}, m \in {"", "qa", "qa_blocks"}, t \in {"", "hello"},
       cx \in {"", "ctx"}, at \in SeqsUpTo(SpecEntries, MaxAtts), h \in HeaderSets}

\* LOG_HEADERS, LOG_BODY, SLACK_BLOCKS_DEFAULT and the system text loaded
\* at startup
PromptConfigs ==
    [blocksDefault : BOOLEAN, whisperFound : {TRUE}, logHeaders : BOOLEAN, logBody : BOOLEAN,
     system : {"", "sys"}]

\* the request texts the audio loop can leave for the files sv
SectionLists(sv) ==
    LET A == {k \in 1..Len(sv) : isAudio(sv[k].filename)}
        nth(k) == CHOOSE j \in A : Cardinality({m \in A : m <= j}) = k
    IN  {[k \in 1..Cardinality(A) |-> Section(kinds[k], sv[nth(k)].filename)] :
            kinds \in [1..Cardinality(A) -> {"transcript", "warning"}]}

\* the handler when the audio loop has ended
InitPrompt ==
    /\ server = ServerUp
    /\ variant \in {"simple", "full"}
    /\ req \in PromptReqs
    /\ env \in {e \in PromptConfigs : e.blocksDefault => modeOf(req) = "qa"}
    /\ LET m == materializeAttachmentsInCWD(req.attachments, {}, 0)
       IN  /\ fs = IF variant = "full" THEN m.fs ELSE {}
           /\ saved = IF variant = "full" THEN m.saved ELSE <<>>
    /\ requestText \in SectionLists(saved)
    /\ pc = "compose"
    /\ audioIdx = 0
    /\ prompt = NoPrompt
    /\ child = NoChild
    /\ result = NoResult
    /\ trace = <<>>

\* the composer has returned parts
PromptEv(parts) == Ev("prompt", 0, "composed", "na", parts, NoUrl, NoName)

\* one run of the composer on the inputs of the request
Compose ==
    /\ pc = "compose" /\ Len(trace) < MaxCompose
    /\ LET parts == handlerPrompt(variant, req, env, saved, requestText)
       IN  /\ prompt' = [shape |-> "composed", parts |-> parts]
           /\ trace' = Append(trace, PromptEv(parts))
    /\ UNCHANGED <<server, variant, env, req, pc, fs, saved, audioIdx, requestText, child, result>>

NextPrompt == Compose

SpecPrompt == InitPrompt /\ [][NextPrompt]_vars

----------------------------------------------------------------------------
(* Properties of the Prompt Composer *)

\* the prompts composed so far
Composed == {trace[i].val : i \in Where(trace, "prompt")}

\* the attachment payloads a part of a prompt holds: only the printed body
\* can hold attachment entries
PartPayloads(p) ==
    IF p.kind = "body"
    THEN {p.val.attachments[i].data : i \in 1..Len(p.val.attachments)} \ {<<>>}
    ELSE {}

\* C17: in the full listener no prompt, of any shape, holds the payload of
\* an attachment entry: attachments appear in the file manifest only.
C17_NoAttachmentContent ==
    variant = "full" =>
        \A parts \in Composed : \A k \in 1..Len(parts) : PartPayloads(parts[k]) = {}

\* two header sets differ in the values of credential headers only
SameButCredentials(h1, h2) ==
    /\ DOMAIN h1 = DOMAIN h2
    /\ \A k \in DOMAIN h1 : ~SensitiveName(k) => h1[k] = h2[k]

\* the prompt of the request had its headers been h
PromptWithHeaders(h) ==
    handlerPrompt(variant, [req EXCEPT !.headers = h], env, saved, requestText)

\* C18: in every listener, when LOG_HEADERS is not set, a request that
\* differs from this one in the values of credential headers only gets
\* the prompt this one got.
C18_PromptIgnoresCredentials ==
    ~env.logHeaders =>
        \A parts \in Composed : \A h \in HeaderSets :
            SameButCredentials(req.headers, h) => PromptWithHeaders(h) = parts

----------------------------------------------------------------------------
(* Properties of the structured-reply mode *)

\* the step settles the invocation of the engine with pres
SettlesWith(pres) ==
    /\ child.proc = "gemini" /\ child.alive /\ ~child.settled
    /\ Settle(pres, trace)

\* the deliveries the step adds
NewDeliveries == {i \in Deliveries' : i > Len(trace)}

\* C20: when structured-reply mode is requested and the engine exits 0
\* with output without a block array, the result is the plain-text one,
\* {ok: true, reply: the output, blocks: null}, every delivery of it carries
\* that (the body prints the reply of an empty output as null), and no
\* error leaves the handler.
C20_FallbackToPlainText ==
    [][ \A out \in Stdouts, err \in Stderrs :
            (/\ variant = "full" /\ Accepted /\ blocksMode(req, env)
             /\ ~hasBlocks(out)
             /\ SettlesWith(ProcRes("0", out, err)))
            => /\ result' = [ok |-> TRUE, reply |-> out, blocks |-> FALSE, detail |-> <<>>]
               /\ \A i \in NewDeliveries :
                     trace'[i].ok = "true" /\ trace'[i].val \in {out, bodyVal(result')}
               /\ pc' = "done"
      ]_vars


----------------------------------------------------------------------------
(* The selection of the prompt shape on its own: JSON requests over the    *)
(* values of the body's mode field and of the mode query parameter         *)

ModeValues == {"", "qa", "qa_blocks", "summary"}

\* JSON requests; modeSet: the body has a mode field, which may hold the
\* empty string
ModeReqs ==
    {[ct |-> "json", jsonOk |-> TRUE, respUrl |-> u, slackUrl |-> NoUrl, asyncQ |-> FALSE,
      prefer |-> FALSE, hostOk |-> TRUE, mode |-> IF ms THEN m ELSE "", modeQ |-> q,
      text |-> "hello", attachments |-> <<>>, ioFailAt |-> 0, modeSet |-> ms] :
       u \in {NoUrl, UrlOther}, ms \in BOOLEAN, m \in ModeValues, q \in ModeValues}

InitMode == InitWith({"full"}, ModeReqs, {{}})

NextMode ==
    \/ EndEvent
    \/ GeminiClose
    \/ GeminiError
    \/ GeminiTimeout

SpecMode == InitMode /\ [][NextMode]_vars

----------------------------------------------------------------------------
(* Properties of the selection of the prompt shape *)

\* the shape a mode selects: structured reply for qa_blocks and, with the
\* structured default on, for qa; question answering for qa; operational
\* for every other value
ShapeOfMode(m) ==
    IF m = "qa_blocks" \/ (m = "qa" /\ env.blocksDefault) THEN "blocks"
    ELSE IF m = "qa" THEN "qa" ELSE "ops"

\* the handler of a JSON request has selected the shape of its prompt
ShapeSelected == req.ct = "json" /\ req.jsonOk /\ prompt # NoPrompt

\* C21 as claimed: the shape of the prompt of a JSON request is the one of
\* the body's mode field when the body has the field, and else the one of
\* the mode query parameter.
C21_FieldWhenPresent ==
    ShapeSelected => prompt.shape = ShapeOfMode(IF req.modeSet THEN req.mode ELSE req.modeQ)

\* C21 as amended: the shape of the prompt of a JSON request is the one of
\* the body's mode field when the body has the field and it is not empty,
\* and else the one of the mode query parameter; so ?mode=qa selects the
\* question-answering shape for a body without mode field.
C21_FieldWhenNotEmpty ==
    ShapeSelected =>
        /\ prompt.shape =
              ShapeOfMode(IF req.modeSet /\ req.mode # "" THEN req.mode ELSE req.modeQ)
        /\ (~req.modeSet /\ req.modeQ = "qa" /\ ~env.blocksDefault) => prompt.shape = "qa"

\* C21 happens: body and query name different modes and the one of the
\* body selected the shape of a prompt whose answer has been delivered
C21_Witness ==
    /\ ShapeSelected /\ pc = "done"
    /\ req.modeSet /\ req.mode = "qa_blocks" /\ req.modeQ = "qa"
    /\ prompt.shape = "blocks"


----------------------------------------------------------------------------
(* The router: the callback of http.createServer, from the arrival of a    *)
(* request to its answer or to the `end` handler of an event               *)

\* url.startsWith(prefix)
startsWith(url, prefix) == Len(prefix) <= Len(url) /\ SubSeq(url, 1, Len(prefix)) = prefix

Url_health == <<"/","h","e","a","l","t","h">>
Url_event == <<"/","e","v","e","n","t">>
Query_async == <<"?","a","s","y","n","c","=","1">>

\* request targets: the two endpoints, each with a query too, and others
RouteUrls ==
    { Url_health, Url_health \o <<"?","x">>, Url_event, Url_event \o Query_async,
      Url_event \o <<"s">>, Url_event \o <<"/","x">>, <<"/">> }

Methods == {"GET", "POST", "PUT"}

\* the request r with its request line
Routed(r, method, url) ==
    [method |-> method, url |-> url, ct |-> r.ct, jsonOk |-> r.jsonOk, respUrl |-> r.respUrl,
     slackUrl |-> r.slackUrl, asyncQ |-> url = Url_event \o Query_async, prefer |-> r.prefer,
     hostOk |-> r.hostOk, mode |-> r.mode, modeQ |-> r.modeQ, text |-> r.text,
     attachments |-> r.attachments, ioFailAt |-> r.ioFailAt]

\* bodies: a JSON event with a file, one with a callback URL, one that does
\* not parse, none
RouteBodies ==
    { [BaseReq EXCEPT !.attachments = <<Att("obj", Name_a_t, B64(3), "")>>],
      [BaseReq EXCEPT !.respUrl = UrlOther],
      [BaseReq EXCEPT !.jsonOk = FALSE],
      [BaseReq EXCEPT !.ct = "other"] }

RouteReqs == {Routed(r, m, u) : r \in RouteBodies, m \in Methods, u \in RouteUrls}

\* a request has arrived and the callback of the server has not run
InitRoute ==
    /\ server = ServerUp
    /\ variant = "full"
    /\ req \in RouteReqs
    /\ env = [blocksDefault |-> FALSE, whisperFound |-> TRUE]
    /\ fs = {}
    /\ pc = "arrived"
    /\ saved = <<>>
    /\ audioIdx = 0
    /\ requestText = <<>>
    /\ prompt = NoPrompt
    /\ child = NoChild
    /\ result = NoResult
    /\ trace = <<>>

\* the callback of the server: GET /health is answered, POST on a target
\* that starts with /event gets the data and end listeners (the state
\* "received" is the one before the end handler runs), anything else is
\* answered 404
Route ==
    /\ pc = "arrived"
    /\ IF req.method = "GET" /\ req.url = Url_health
       THEN /\ trace' = Append(trace, Res(200, "health", "na", "ok"))
            /\ pc' = "done"
       ELSE IF req.method = "POST" /\ startsWith(req.url, Url_event)
       THEN /\ pc' = "received"
            /\ UNCHANGED trace
       ELSE /\ trace' = Append(trace, Res(404, "not_found", "na", "Not found"))
            /\ pc' = "done"
    /\ UNCHANGED <<server, variant, env, req, fs, saved, audioIdx, requestText, prompt, child, result>>

NextRoute ==
    \/ Route
    \/ EndInvalidJson
    \/ EndEvent
    \/ GeminiClose
    \/ GeminiError
    \/ GeminiTimeout

SpecRoute == InitRoute /\ [][NextRoute]_vars

----------------------------------------------------------------------------
(* Properties of the router *)

IsHealth == req.method = "GET" /\ req.url = Url_health

\* POST /event, optionally followed by a query string
IsEvent ==
    /\ req.method = "POST"
    /\ req.url = Url_event \/ startsWith(req.url, Url_event \o <<"?">>)

\* C22: a request the server has answered or started to handle was
\* answered 404 "Not found" exactly when it is neither GET /health nor
\* POST /event (with or without query string); and a request that is no
\* POST /event has its one response and nothing else: no file, no child
\* process, no callback POST.
C22_NotFoundExactly ==
    pc # "arrived" =>
        /\ (\E i \in Responses : trace[i] = Res(404, "not_found", "na", "Not found"))
              <=> ~(IsHealth \/ IsEvent)
        /\ ~IsEvent => /\ Len(trace) = 1 /\ Responses = {1}
                       /\ fs = {} /\ saved = <<>> /\ child = NoChild


----------------------------------------------------------------------------
(* The callback POST on the network: the request of postJSON can emit      *)
(* `error`, which its listener logs                                        *)

\* the `error` event of the request of postJSON has been logged
PostErrorEv == Ev("post_error", 0, "logged", "na", "", NoUrl, NoName)

\* a callback POST is on the network and has not failed
PostInFlight == Where(trace, "post") # {} /\ Where(trace, "post_error") = {}

\* an error listener that sends the payload again
PostError_Retry ==
    /\ PostInFlight
    /\ trace' = trace \o <<PostErrorEv, trace[CHOOSE i \in Where(trace, "post") : TRUE]>>
    /\ UNCHANGED <<server, variant, env, req, pc, fs, saved, audioIdx, requestText, prompt, child, result>>

\* req.on("error", e => console.error(...)): the network error of the
\* callback POST is logged and nothing else
PostError ==
    /\ PostInFlight
    /\ trace' = Append(trace, PostErrorEv)
    /\ UNCHANGED <<server, variant, env, req, pc, fs, saved, audioIdx, requestText, prompt, child, result>>

\* requests with a callback target, of both listeners: slash commands and
\* JSON events
CallbackReqs(v) ==
    {[BaseReq EXCEPT !.ct = "form", !.respUrl = u, !.text = t] :
        u \in Urls, t \in IF v = "full" THEN {"hello", "use blocks"} ELSE {"hello"}}
      \cup {[BaseReq EXCEPT !.respUrl = u[1], !.slackUrl = u[2], !.asyncQ = a,
                            !.mode = IF v = "full" THEN m ELSE ""] :
              u \in UrlPairs, a \in BOOLEAN, m \in {"", "qa_blocks"}}

InitCallback ==
    InitWith({"full"}, CallbackReqs("full"), {{}}) \/ InitWith({"simple"}, CallbackReqs("simple"), {{}})

NextCallback ==
    \/ EndForm
    \/ EndEvent
    \/ GeminiClose
    \/ GeminiError
    \/ GeminiTimeout
    \/ SimpleEndForm
    \/ SimpleEndEvent
    \/ SimpleGeminiClose
    \/ SimpleGeminiError
    \/ PostError

SpecCallback == InitCallback /\ [][NextCallback]_vars

----------------------------------------------------------------------------
(* Properties of the callback delivery *)

\* the callback URL of the request
CallbackUrl == IF req.ct = "form" THEN req.respUrl ELSE responseUrlOf(req)

\* C23: in every listener at most one POST is issued for a request, to its
\* callback URL; once the network error of that POST is logged nothing
\* follows it, no second POST and no write on the original connection,
\* and the request stays delivered.
C23_FireAndForget ==
    /\ Cardinality(Posts) <= 1
    /\ \A i \in Posts : trace[i].url = CallbackUrl
    /\ \A e \in Where(trace, "post_error") :
          /\ e = Len(trace)
          /\ \E i \in Posts : i < e
          /\ pc = "done"

\* C23 happens: the POST of a request failed on the network after the
\* engine had been killed by its timer, and the engine has closed since
C23_Witness ==
    /\ Where(trace, "post_error") # {}
    /\ child.killed /\ ~child.alive
    /\ pc = "done"


----------------------------------------------------------------------------
(* Properties of the handling of errors *)

\* C24: no error leaves the request handler, whatever the request and
\* whatever the engine does: no slash command without response_url, no
\* callback URL that new URL() rejects and no engine failure makes the
\* handler end otherwise than in a handled outcome.
C24_NoEscapedError == Where(trace, "throw") = {} /\ pc \notin {"threw", "crashed"}


----------------------------------------------------------------------------
(* The event loop with two requests in flight.  The variables of a request *)
(* are functions of the request; the working directory is shared.  A       *)
(* handler runs from one await to the next without interleaving, and       *)
(* spawnSync keeps the loop inside the call until the child has exited:    *)
(* the lookup of the transcription executable is a state of its own here.  *)

RIds == {1, 2}

LoopReqs == {[BaseReq EXCEPT !.attachments = at] : at \in SeqsUpTo(SpecEntries, LoopMaxAtts)}

LoopDirs == {{}, {Name_a_t}}

\* outcomes of the reasoning engine in SpecLoop
LoopCodes == {"0", "1"}

InitLoop ==
    /\ server = ServerUp
    /\ variant = "full"
    /\ req \in [RIds -> LoopReqs]
    /\ env \in {e \in Envs : ~e.blocksDefault
                              /\ (~e.whisperFound => \E i \in RIds : ReadsWhisper(req[i]))}
    /\ fs \in LoopDirs
    /\ pc = [i \in RIds |-> "received"]
    /\ saved = [i \in RIds |-> <<>>]
    /\ audioIdx = [i \in RIds |-> 0]
    /\ requestText = [i \in RIds |-> <<>>]
    /\ prompt = [i \in RIds |-> NoPrompt]
    /\ child = [i \in RIds |-> NoChild]
    /\ result = [i \in RIds |-> NoResult]
    /\ trace = [i \in RIds |-> <<>>]

\* the loop is inside spawnSync: no callback runs until the child exits
Blocked == \E i \in RIds : pc[i] = "which_wait"

\* the local state of the handler of request i after a run
Step(i, nx) ==
    /\ pc' = [pc EXCEPT ![i] = nx.pc]
    /\ audioIdx' = [audioIdx EXCEPT ![i] = nx.audioIdx]
    /\ requestText' = [requestText EXCEPT ![i] = nx.requestText]
    /\ prompt' = [prompt EXCEPT ![i] = nx.prompt]
    /\ child' = [child EXCEPT ![i] = nx.child]
    /\ trace' = [trace EXCEPT ![i] = nx.trace]

\* the audio loop from file i on, to the spawnSync of `which` for the next
\* audio file, or to the await of the engine when there is none
loopAudio(sv, i, text, tr, r, e) ==
    LET j == NextAudio(sv, i)
    IN  IF j = 0 THEN startEngine(text, tr, r, e)
        ELSE [pc |-> "which_wait", audioIdx |-> j, requestText |-> text, prompt |-> NoPrompt,
              child |-> Spawned("which", FALSE),
              trace |-> Append(tr, SpawnEv("which", NoName))]

\* `end` of JSON request i: materialize in the shared directory, then the
\* audio loop
LoopEnd(i) ==
    /\ ~Blocked /\ pc[i] = "received"
    /\ LET m == materializeAttachmentsInCWD(req[i].attachments, fs, req[i].ioFailAt)
       IN  /\ fs' = m.fs
           /\ saved' = [saved EXCEPT ![i] = m.saved]
           /\ Step(i, loopAudio(m.saved, 1, <<>>, trace[i] \o m.writes, req[i], env))
    /\ UNCHANGED <<server, variant, env, req, result>>

\* spawnSync("which") returns in the handler of request i: the
\* transcription engine is spawned with its kill timer, or, without the
\* executable, the warning is added and the loop goes on
WhichExit(i) ==
    /\ pc[i] = "which_wait"
    /\ LET name == saved[i][audioIdx[i]].filename
       IN  IF env.whisperFound
           THEN Step(i, [pc |-> "whisper_wait", audioIdx |-> audioIdx[i],
                         requestText |-> requestText[i], prompt |-> NoPrompt,
                         child |-> Spawned("whisper", TRUE),
                         trace |-> Append(trace[i], SpawnEv("whisper", name))])
           ELSE Step(i, loopAudio(saved[i], audioIdx[i] + 1,
                                  Append(requestText[i], Section("warning", name)),
                                  trace[i], req[i], env))
    /\ UNCHANGED <<server, variant, env, req, fs, saved, result>>

\* the kill timer of the transcription of request i fires
LoopWhisperTimeout(i) ==
    /\ ~Blocked /\ pc[i] = "whisper_wait" /\ child[i].alive /\ child[i].timer
    /\ child' = [child EXCEPT ![i].timer = FALSE, ![i].killed = TRUE]
    /\ trace' = [trace EXCEPT ![i] = Append(trace[i], KillEv("whisper"))]
    /\ UNCHANGED <<server, variant, env, req, pc, fs, saved, audioIdx, requestText, prompt, result>>

\* close of the transcription engine of request i
LoopWhisperClose(i, code, wrote, blank) ==
    /\ ~Blocked /\ pc[i] = "whisper_wait" /\ child[i].alive
    /\ code = "null" => child[i].killed
    /\ LET name == saved[i][audioIdx[i]].filename
           exists == wrote \/ existsSync(fs, TxtName(name))
           transcript == code = "0" /\ exists /\ ~blank
           text == Append(requestText[i],
                          Section(IF transcript THEN "transcript" ELSE "warning", name))
       IN  /\ blank => exists
           /\ fs' = IF wrote THEN fs \cup {TxtName(name)} ELSE fs
           /\ Step(i, loopAudio(saved[i], audioIdx[i] + 1, text, trace[i], req[i], env))
    /\ UNCHANGED <<server, variant, env, req, saved, result>>

\* the invocation of the engine of request i is settled with pres, after
\* the effects tr
LoopSettle(i, pres, tr) ==
    LET res == doWork(pres, blocksMode(req[i], env))
        out == deliverJson(req[i], res)
    IN  /\ result' = [result EXCEPT ![i] = res]
        /\ trace' = [trace EXCEPT ![i] = tr \o out]
        /\ pc' = [pc EXCEPT ![i] = IF Threw(out) THEN "threw" ELSE "done"]

\* close of the reasoning engine of request i
LoopGeminiClose(i) ==
    /\ ~Blocked /\ child[i].proc = "gemini" /\ child[i].alive
    /\ child' = [child EXCEPT ![i].alive = FALSE, ![i].timer = FALSE, ![i].settled = TRUE]
    /\ IF child[i].settled
       THEN UNCHANGED <<pc, result, trace>>
       ELSE \E code \in LoopCodes : LoopSettle(i, ProcRes(code, "text", <<>>), trace[i])
    /\ UNCHANGED <<server, variant, env, req, fs, saved, audioIdx, requestText, prompt>>

\* the timer of the reasoning engine of request i fires
LoopGeminiTimeout(i) ==
    /\ ~Blocked /\ child[i].proc = "gemini" /\ child[i].alive /\ child[i].timer
    /\ child' = [child EXCEPT ![i].timer = FALSE, ![i].killed = TRUE, ![i].settled = TRUE]
    /\ LoopSettle(i, ProcRes("124", "", <<"[timeout]">>), Append(trace[i], KillEv("gemini")))
    /\ UNCHANGED <<server, variant, env, req, fs, saved, audioIdx, requestText, prompt>>

NextLoop ==
    \E i \in RIds :
        \/ LoopEnd(i)
        \/ WhichExit(i)
        \/ LoopWhisperTimeout(i)
        \/ \E code \in CloseCodes, wrote \in BOOLEAN, blank \in BOOLEAN :
              LoopWhisperClose(i, code, wrote, blank)
        \/ LoopGeminiClose(i)
        \/ LoopGeminiTimeout(i)

SpecLoop == InitLoop /\ [][NextLoop]_vars

----------------------------------------------------------------------------
(* Properties of the event loop *)

\* C25: while a request has a child process that has not exited, the
\* event loop is free to run the handlers of the other requests: no
\* handler is inside a synchronous wait for a child process, the lookup of
\* the transcription executable included.
C25_LoopNeverBlocks ==
    \A a \in RIds : child[a].alive => \A b \in RIds : pc[b] # "which_wait"


----------------------------------------------------------------------------
(* Properties of the shared working directory *)

\* the names of the Materialized Files of request i in sv
FileNames(sv, i) == {sv[i][k].filename : k \in 1..Len(sv[i])}

\* no two Materialized Files, of one request or of two, have the same path
NoSharedPath ==
    \A i, j \in RIds : \A k \in 1..Len(saved[i]), m \in 1..Len(saved[j]) :
        saved[i][k].filename = saved[j][m].filename => (i = j /\ k = m)

\* every write of a materializer went to a path that did not exist
AllWritesNew ==
    \A i \in RIds : \A k \in 1..Len(trace[i]) :
        trace[i][k].e = "write" => trace[i][k].val = "new"

\* C30: in every interleaving of two requests no two Materialized Files
\* have the same path and no write of a materializer goes to a path that
\* exists; a step that materializes the files of one request leaves the
\* files of the other as they are and adds exactly its own files to the
\* directory, none of which was there before.
C30_NoCollision ==
    [][ /\ NoSharedPath'
        /\ AllWritesNew'
        /\ \A i \in RIds :
              saved'[i] # saved[i] =>
                  /\ \A j \in RIds \ {i} : saved'[j] = saved[j]
                  /\ fs' = fs \cup FileNames(saved', i)
                  /\ FileNames(saved', i) \cap fs = {}
      ]_vars

\* C30 happens: two requests submitted the same file name, and the second
\* was materialized, under a suffixed name, while the first awaited its
\* transcription
C30_Witness ==
    \E a, b \in RIds :
        /\ a # b
        /\ pc[a] = "whisper_wait" /\ child[a].alive
        /\ saved[a] # <<>> /\ saved[b] # <<>>
        /\ req[a].attachments[1].filename = req[b].attachments[1].filename
        /\ saved[b][1].filename = Suffixed(saved[a][1].filename, 1)


----------------------------------------------------------------------------
(* The lifecycle of the process: connections, the interrupt signal, the    *)
(* close of the server and the grace timer.  A connection is "none" (not   *)
(* open), "inflight" (a request whose response is not written) or "idle"   *)
(* (kept alive, no request).                                               *)

InitShutdown ==
    /\ server = ServerUp
    /\ variant = "full"
    /\ req = BaseReq
    /\ env = [blocksDefault |-> FALSE, whisperFound |-> TRUE]
    /\ fs = {}
    /\ pc = "idle"
    /\ saved = <<>>
    /\ audioIdx = 0
    /\ requestText = <<>>
    /\ prompt = NoPrompt
    /\ child = NoChild
    /\ result = NoResult
    /\ trace = <<>>

Running == server.exited = "no"

\* the handler of one request is left out of the lifecycle
HandlerIdle == UNCHANGED <<variant, env, req, pc, fs, saved, audioIdx, requestText, prompt, child, result, trace>>

\* a client connects and sends a request: only a listening server accepts
Connect(c) ==
    /\ Running /\ server.listening /\ server.conns[c] = "none"
    /\ server' = [server EXCEPT !.conns[c] = "inflight"]
    /\ HandlerIdle

\* a client sends a request on a connection that was kept alive
Request(c) ==
    /\ Running /\ server.conns[c] = "idle"
    /\ server' = [server EXCEPT !.conns[c] = "inflight"]
    /\ HandlerIdle

\* res.end of the request on connection c: the response is written, and
\* the connection ends or is kept alive
Respond(c, keep) ==
    /\ Running /\ server.conns[c] = "inflight"
    /\ server' = [server EXCEPT !.conns[c] = IF keep THEN "idle" ELSE "none",
                                !.answered = IF c \in server.atSigint THEN @ \cup {c} ELSE @]
    /\ HandlerIdle

\* the client ends connection c, with or without a request in flight
Disconnect(c) ==
    /\ Running /\ server.conns[c] # "none"
    /\ server' = [server EXCEPT !.conns[c] = "none",
                                !.aborted = IF server.conns[c] = "inflight" /\ c \in server.atSigint
                                                 /\ c \notin server.answered
                                            THEN @ \cup {c} ELSE @]
    /\ HandlerIdle

\* a SIGINT handler without the grace timer
Sigint_NoGraceTimer(closeIdle) ==
    /\ Running /\ ~server.closing
    /\ server' = [server EXCEPT
          !.listening = FALSE, !.closing = TRUE,
          !.atSigint = {c \in Conns : server.conns[c] = "inflight"},
          !.conns = [c \in Conns |-> IF closeIdle /\ server.conns[c] = "idle"
                                     THEN "none" ELSE server.conns[c]]]
    /\ HandlerIdle

\* the SIGINT handler: server.close(callback) stops listening and, by the
\* version of the runtime (closeIdle), ends the idle connections; the
\* grace timer is armed.  A second signal changes nothing of this state.
Sigint(closeIdle) ==
    /\ Running /\ ~server.closing
    /\ server' = [server EXCEPT
          !.listening = FALSE, !.closing = TRUE, !.timer = TRUE,
          !.atSigint = {c \in Conns : server.conns[c] = "inflight"},
          !.conns = [c \in Conns |-> IF closeIdle /\ server.conns[c] = "idle"
                                     THEN "none" ELSE server.conns[c]]]
    /\ HandlerIdle

\* the callback of server.close: the server has stopped listening and its
\* last connection has ended; process.exit(0)
ServerClosed ==
    /\ Running /\ server.closing
    /\ \A c \in Conns : server.conns[c] = "none"
    /\ server' = [server EXCEPT !.exited = "close", !.timer = FALSE]
    /\ HandlerIdle

\* the grace timer fires: process.exit(0)
GraceTimeout ==
    /\ Running /\ server.timer
    /\ server' = [server EXCEPT !.exited = "timer", !.timer = FALSE]
    /\ HandlerIdle

NextShutdown ==
    \/ \E c \in Conns : Connect(c)
    \/ \E c \in Conns : Request(c)
    \/ \E c \in Conns, keep \in BOOLEAN : Respond(c, keep)
    \/ \E c \in Conns : Disconnect(c)
    \/ \E closeIdle \in BOOLEAN : Sigint(closeIdle)
    \/ ServerClosed
    \/ GraceTimeout

SpecShutdown == InitShutdown /\ [][NextShutdown]_vars

\* a timer that is armed fires while the process runs
SpecShutdownFair == SpecShutdown /\ WF_vars(GraceTimeout)

----------------------------------------------------------------------------
(* Properties of the shutdown *)

\* once the signal is handled no connection is opened
NoNewConnection ==
    server.closing => \A c \in Conns : server.conns[c] = "none" => server'.conns[c] = "none"

\* the process has exited through the close of the server only when no
\* request was in flight, and every request in flight at the signal had
\* got its response, unless its client had gone
ClosedAfterResponses ==
    server.exited = "close" =>
        /\ \A c \in Conns : server.conns[c] # "inflight"
        /\ server.atSigint \subseteq server.answered \cup server.aborted

\* until the process exits, a request in flight at the signal that is not
\* answered is still in flight (it can complete), or its client has gone
StillServed ==
    Running =>
        \A c \in server.atSigint \ (server.answered \cup server.aborted) :
            server.conns[c] = "inflight"

\* C26: after the interrupt signal no new connection is accepted; a
\* request in flight at the signal can still complete and be answered
\* until the process exits, and the close of the server never exits the
\* process before such a request is answered; and the process eventually
\* exits, by the close of the server or by the grace timer.
C26_GracefulShutdown ==
    /\ [][NoNewConnection]_vars
    /\ [](ClosedAfterResponses /\ StillServed)
    /\ [](server.exited \in {"no", "close", "timer"})
    /\ (server.closing ~> ~Running)

\* C26 happens: a request in flight at the signal was answered after it,
\* and the process exited on the close of the server
C26_Witness ==
    /\ server.exited = "close"
    /\ server.atSigint # {} /\ server.atSigint \subseteq server.answered


----------------------------------------------------------------------------
(* Properties of the schema of the callback payload *)

\* the host is slack.com or a subdomain of it
SlackHost(host) == host = Chars_slack_com \/ endsWith(host, <<".">> \o Chars_slack_com)

\* C27: a JSON request of the full listener with a callback URL whose
\* handler has run to its end has posted one payload, and every payload
\* posted for such a request is in the chat platform's schema exactly when
\* the URL parses and its host is slack.com or a subdomain of it, and is
\* the generic object for every other host and for a URL that does not
\* parse.
C27_SlackSchemaIffSlackHost ==
    (variant = "full" /\ req.ct = "json" /\ req.jsonOk /\ responseUrlOf(req).set)
        => /\ pc = "done" => Cardinality(Posts) = 1
           /\ \A i \in Posts :
                 trace[i].what = IF responseUrlOf(req).ok /\ SlackHost(responseUrlOf(req).host)
                                 THEN "slack" ELSE "generic"


----------------------------------------------------------------------------
(* Properties of the simple listener against the full one *)

\* the responses and callback POSTs of the full listener for a request r
\* without attachments whose engine settles with pres: the acknowledgment
\* and the POST of a slash command, the soft failure of a body that does
\* not parse, and the 202 and the delivery of an event
fullHandler(r, e, pres) ==
    IF r.ct = "form" THEN <<Res(200, "working", "na", "")>> \o deliverForm(r, e, pres)
    ELSE IF r.ct = "json" /\ ~r.jsonOk THEN <<Res(200, "invalid_json", "false", "invalid_json")>>
    ELSE (IF responseUrlOf(r).set \/ forceAsyncOf(r)
          THEN <<Res(202, "accepted", "true", "")>> ELSE <<>>)
           \o deliverJson(r, doWork(pres, blocksMode(r, e)))

IsRes(ev) == ev.e = "res"

\* the HTTP statuses written on the original connection, in order
Statuses(tr) == [k \in 1..Len(SelectSeq(tr, IsRes)) |-> SelectSeq(tr, IsRes)[k].status]

\* the delivery path taken: a callback POST, the body of the response on
\* the original connection, or none
DeliveryPath(tr) ==
    IF \E i \in 1..Len(tr) : tr[i].e = "post" THEN "callback"
    ELSE IF \E i \in 1..Len(tr) : tr[i].e = "res" /\ tr[i].what \in {"result", "invalid_json"}
    THEN "synchronous"
    ELSE "none"

\* C28: when the simple listener has handled a POST /event request
\* (without attachments and mode) to its end, with the engine succeeding
\* or failing, the statuses on the original connection and the delivery
\* path are those of the full listener for the same request and every
\* engine outcome of the same kind.
C28_SimpleIsSubset ==
    (variant = "simple" /\ pc = "done" /\ req.hostOk) =>
        \A code \in CloseCodes \ {"null"}, out \in Stdouts, err \in Stderrs :
            ((code = "0") = result.ok) =>
                LET full == fullHandler(req, env, ProcRes(code, out, err))
                IN  /\ Statuses(trace) = Statuses(full)
                    /\ DeliveryPath(trace) = DeliveryPath(full)


----------------------------------------------------------------------------
(* The detection of audio files on its own: names with an audio extension  *)
(* in either case, declared mime types that disagree with the name, and a  *)
(* directory that makes the materializer rename                            *)

Name_CLIP_MP3 == <<"c","l","i","p",".","M","P","3">>

AudioEntries ==
    { Att("obj", Name_clip_mp3, B64(3), "text/plain"),
      Att("obj", Name_CLIP_MP3, B64(3), ""),
      Att("obj", Name_a_t, B64(3), "audio/mpeg") }

AudioReqs ==
    {[BaseReq EXCEPT !.hostOk = h, !.attachments = at] :
        h \in BOOLEAN, at \in SeqsUpTo(AudioEntries, MaxAtts)}

AudioDirs == {{}, {Name_clip_mp3}}

InitAudio == InitWith({"full"}, AudioReqs, AudioDirs)

NextAudioSpec ==
    \/ EndEvent
    \/ WhisperTimeout
    \/ \E code \in CloseCodes, wrote \in BOOLEAN, blank \in BOOLEAN : WhisperClose(code, wrote, blank)
    \/ GeminiClose
    \/ GeminiError
    \/ GeminiTimeout

SpecAudio == InitAudio /\ [][NextAudioSpec]_vars

----------------------------------------------------------------------------
(* Properties of the detection of audio files *)

\* the name ends in "." and one of the audio extensions, in any case
HasAudioExt(name) ==
    \E e \in AudioExts : endsWith([i \in 1..Len(name) |-> LowerOf(name[i])], e)

\* the number of times the transcription engine was spawned on the file
EngineRuns(name) ==
    Cardinality({i \in Where(trace, "spawn") : trace[i].what = "whisper" /\ trace[i].name = name})

\* the number of sections the file has in the request text
SectionsOf(name) == Cardinality({k \in 1..Len(requestText) : requestText[k].name = name})

\* the handler is past the audio loop: the prompt has been composed
PastAudioLoop == Accepted /\ prompt # NoPrompt

\* C29 as claimed: when the audio loop of a request has ended, the
\* transcription engine was invoked exactly once on every Materialized
\* File whose final name has an audio extension and never on another
\* file, and each audio file has exactly one section.
C29_EngineIffAudio ==
    PastAudioLoop =>
        \A k \in 1..Len(saved) :
            LET name == saved[k].filename
            IN  /\ EngineRuns(name) = IF HasAudioExt(name) THEN 1 ELSE 0
                /\ SectionsOf(name) = IF HasAudioExt(name) THEN 1 ELSE 0

\* C29 as amended: the engine is never invoked more than once on a file,
\* never on a file without an audio extension in its final name, and
\* never when its executable is not found; a file never has more than one
\* section and has none without an audio extension; and when the audio
\* loop has ended every audio file has exactly one section, a warning
\* when the executable is not found, and with the executable found the
\* engine was invoked exactly once on it.  The declared mime type plays no
\* part.
C29_AttemptIffAudio ==
    \A k \in 1..Len(saved) :
        LET name  == saved[k].filename
            audio == HasAudioExt(name)
        IN  /\ EngineRuns(name) <= (IF audio /\ env.whisperFound THEN 1 ELSE 0)
            /\ SectionsOf(name) <= (IF audio THEN 1 ELSE 0)
            /\ PastAudioLoop =>
                  /\ SectionsOf(name) = (IF audio THEN 1 ELSE 0)
                  /\ EngineRuns(name) = (IF audio /\ env.whisperFound THEN 1 ELSE 0)
                  /\ (audio /\ ~env.whisperFound) =>
                        \E j \in 1..Len(requestText) :
                            requestText[j] = Section("warning", name)

\* C29 happens: a file with an upper-case audio extension and a renamed
\* audio file declared as text were transcribed, a file declared as audio
\* without audio extension was not, and the answer has been delivered
C29_Witness ==
    /\ pc = "done" /\ Len(saved) = 2
    /\ \E k \in 1..2 : saved[k].filename = Name_CLIP_MP3 /\ EngineRuns(Name_CLIP_MP3) = 1
    /\ \E k \in 1..2 : /\ saved[k].mime = "text/plain" /\ saved[k].filename # Name_clip_mp3
                       /\ EngineRuns(saved[k].filename) = 1


----------------------------------------------------------------------------
(* The reasoning invocation on its own: runGeminiProcess with the output   *)
(* the child writes, character by character, and runGemini awaiting it.    *)
(* child carries, besides the fields of Spawned, the buffers out and err,  *)
(* the exit code of the closed child, the value the promise of             *)
(* runGeminiProcess is resolved with and the outcome of runGemini          *)

\* longest text the child writes to one of its streams
MaxOut == 2

EngineChars == {" ", "a"}

IsSpace(c) == c = " "

RECURSIVE trimStart(_)
trimStart(t) == IF t # <<>> /\ IsSpace(Head(t)) THEN trimStart(Tail(t)) ELSE t

RECURSIVE trimEnd(_)
trimEnd(t) == IF t # <<>> /\ IsSpace(t[Len(t)]) THEN trimEnd(SubSeq(t, 1, Len(t) - 1)) ELSE t

\* String.prototype.trim
trim(t) == trimEnd(trimStart(t))

Pending == [state |-> "pending"]
Fulfilled(v) == [state |-> "fulfilled", val |-> v]
Rejected(m) == [state |-> "rejected", val |-> m]

\* runGemini after its await: res.stdout on code 0, otherwise it throws
\* an Error with res.stderr || `gemini exit ${res.code}`
runGemini(res) ==
    IF res.code = "0" THEN Fulfilled(res.stdout) ELSE Rejected(errorMessage(res))

\* resolve that replaces the value the promise was settled with
resolve_LastWins(c, v) == [c EXCEPT !.res = v, !.returned = runGemini(v)]

\* resolve(v) of the promise of runGeminiProcess: the first call settles
\* it, and the await of runGemini continues with the value; a later call
\* has no effect
resolve(c, v) ==
    IF c.res = Pending THEN [c EXCEPT !.res = v, !.returned = runGemini(v)] ELSE c

\* the child was just spawned, its timer is armed
InitEngine ==
    /\ server = ServerUp
    /\ variant = "full"
    /\ req = BaseReq
    /\ env = [blocksDefault |-> FALSE, whisperFound |-> TRUE]
    /\ fs = {}
    /\ pc = "gemini_wait"
    /\ saved = <<>>
    /\ audioIdx = 0
    /\ requestText = <<>>
    /\ prompt = NoPrompt
    /\ child = [proc |-> "gemini", alive |-> TRUE, timer |-> TRUE, killed |-> FALSE,
                settled |-> FALSE, failed |-> FALSE, out |-> <<>>, err |-> <<>>,
                code |-> "none", res |-> Pending, returned |-> Pending]
    /\ result = NoResult
    /\ trace = <<>>

EngineRest == UNCHANGED <<server, variant, env, req, pc, fs, saved, audioIdx, requestText, prompt, result>>

\* p.stdout.on("data"): out += chunk
EngineStdout(c) ==
    /\ child.alive /\ ~child.failed /\ Len(child.out) < MaxOut
    /\ child' = [child EXCEPT !.out = Append(@, c)]
    /\ UNCHANGED trace
    /\ EngineRest

\* p.stderr.on("data"): err += chunk
EngineStderr(c) ==
    /\ child.alive /\ ~child.failed /\ Len(child.err) < MaxOut
    /\ child' = [child EXCEPT !.err = Append(@, c)]
    /\ UNCHANGED trace
    /\ EngineRest

\* p.on("close"): clearTimeout and resolve with the trimmed buffers and
\* the code, which is null for a child ended by a signal (of the timer or
\* of another process) and the negative errno for a child that could not
\* be spawned
EngineClose(code) ==
    /\ child.alive
    /\ code = "-2" <=> child.failed
    /\ child' = resolve([child EXCEPT !.alive = FALSE, !.timer = FALSE, !.settled = TRUE,
                                      !.code = code],
                        ProcRes(code, trim(child.out), trim(child.err)))
    /\ UNCHANGED trace
    /\ EngineRest

\* p.on("error"): the child could not be spawned, or the child could not
\* be killed by the timer: clearTimeout and resolve with code -1 and the
\* message of the error
EngineError ==
    /\ child.alive /\ ~child.failed
    /\ IF child.killed
       THEN child' = resolve([child EXCEPT !.timer = FALSE, !.settled = TRUE],
                             ProcRes("-1", trim(child.out), <<"kill EPERM">>))
       ELSE /\ child.out = <<>> /\ child.err = <<>>
            /\ child' = resolve([child EXCEPT !.timer = FALSE, !.settled = TRUE, !.failed = TRUE],
                                ProcRes("-1", trim(child.out), <<"spawn gemini ENOENT">>))
    /\ UNCHANGED trace
    /\ EngineRest

\* the timer fires: SIGKILL and resolve with code 124 and the trimmed
\* buffers, the mark [timeout] added to the standard-error text
EngineTimeout ==
    /\ child.alive /\ child.timer
    /\ child' = resolve([child EXCEPT !.timer = FALSE, !.killed = TRUE, !.settled = TRUE],
                        ProcRes("124", trim(child.out), trim(child.err) \o <<" ", "[timeout]">>))
    /\ trace' = Append(trace, KillEv("gemini"))
    /\ EngineRest

NextEngine ==
    \/ \E c \in EngineChars : EngineStdout(c)
    \/ \E c \in EngineChars : EngineStderr(c)
    \/ \E code \in CloseCodes : EngineClose(code)
    \/ EngineError
    \/ EngineTimeout

SpecEngine == InitEngine /\ [][NextEngine]_vars


----------------------------------------------------------------------------
(* Properties of the reasoning invocation *)

\* the step is one of the three events that settle: close, error, timer
SettlingEvent ==
    \/ child.alive /\ ~child'.alive
    \/ ~child.failed /\ child'.failed
    \/ ~child.killed /\ child'.killed

\* what the claim has a close with the code and the texts written so far
\* end in: the trimmed standard output on code 0, otherwise a failure with
\* the trimmed standard-error text or, when that is empty, the generic
\* message with the code
ClaimedOutcome(code, out, err) ==
    IF code = "0" THEN Fulfilled(trim(out))
    ELSE Rejected(IF trim(err) # <<>> THEN trim(err) ELSE <<"gemini exit", code>>)

\* a settled invocation keeps its result
SettledOnce ==
    child.returned # Pending => child'.returned = child.returned /\ child'.res = child.res

\* the first of close, error and timer settles the invocation: a close as
\* claimed for its code, an error and the timer with a failure
SettledByFirst ==
    (child.returned = Pending /\ SettlingEvent) =>
        /\ child'.returned # Pending
        /\ IF ~child'.alive
           THEN child'.returned = ClaimedOutcome(child'.code, child.out, child.err)
           ELSE child'.returned.state = "rejected"

\* success is a close with code 0 before the timer has fired, and nothing
\* else
SuccessIffCleanClose ==
    /\ child.returned.state = "fulfilled" <=> (child.code = "0" /\ ~child.killed)
    /\ child.returned = Pending <=> ~child.settled
    /\ child.returned # Pending => child.returned.state \in {"fulfilled", "rejected"}

\* C31: the reasoning invocation is settled exactly once, by the first of
\* close, spawn error and timer expiry, and later events do not change the
\* result: it succeeds with the trimmed standard output exactly when the
\* child closes with code 0 before the timer fires; a close with another
\* code or with null fails with the (trimmed) standard-error text or, if
\* that is empty, with the generic exit-code message; a timer expiry fails
\* even if the child closes with code 0 afterwards.
C31_SettledOnceByFirstEvent ==
    /\ [][SettledOnce /\ SettledByFirst]_vars
    /\ []SuccessIffCleanClose

\* C31 happens: the timer fired on a child that had written output, the
\* child closed with code 0 afterwards, and the invocation has failed with
\* the mark of the timeout
C31_Witness ==
    /\ child.killed /\ ~child.alive /\ child.code = "0" /\ trim(child.out) # <<>>
    /\ child.res.code = "124"
    /\ child.returned = Rejected(trim(child.err) \o <<" ", "[timeout]">>)


----------------------------------------------------------------------------
(* The names of the materializer on their own: filenames with path         *)
(* separators, "." and "..", characters outside the class, and no name     *)

Name_dot == <<".">>
Name_up_x == <<".", ".", "/", "x">>
Name_abs_e == <<"/", "e">>
Name_back_b == <<"a", "\\", " ", "b">>
Name_dotdot_1 == <<".", ".", "-", "1">>

HostileNames == {Name_dot, Name_dotdot, Name_up_x, Name_abs_e, Name_back_b, <<>>}

NameEntries == {Att("obj", n, B64(3), "") : n \in HostileNames}

NameReqs == {[BaseReq EXCEPT !.attachments = at] : at \in SeqsUpTo(NameEntries, MaxAtts)}

NameDirs == {{}, {Name_dotdot_1}}

InitNames == InitWith({"full"}, NameReqs, NameDirs)

SpecNames == InitNames /\ [][NextMat]_vars

----------------------------------------------------------------------------
(* Properties of the names of the materializer *)

\* the names written by the request, in the trace and in its records
WrittenNames ==
    {trace[i].name : i \in Where(trace, "write")} \cup {saved[k].filename : k \in 1..Len(saved)}

\* path.join(baseDir, name) is an entry of the directory: the name is one
\* path component, and neither the directory nor its parent
DirectlyInside(name) ==
    /\ name # <<>>
    /\ \A i \in 1..Len(name) : name[i] \notin {"/", "\\"}
    /\ name \notin {<<".">>, <<".", ".">>}

\* C32: whatever filename is submitted, the file is written directly
\* inside the working directory: its final name has characters of
\* [a-zA-Z0-9._-] only, and the written path is neither outside the
\* directory nor the directory itself nor its parent.
C32_WrittenInsideWorkingDir ==
    \A n \in WrittenNames :
        /\ \A i \in 1..Len(n) : SafeChar(n[i])
        /\ DirectlyInside(n)

\* C32 happens: attachments named ".." and "../x" were submitted to a
\* directory that holds "..-1", and were written as "..-2" and ".._x"
C32_Witness ==
    /\ Len(req.attachments) = 2 /\ Len(saved) = 2
    /\ req.attachments[1].filename = Name_dotdot
    /\ req.attachments[2].filename = Name_up_x
    /\ saved[1].filename = <<".", ".", "-", "2">>
    /\ saved[2].filename = <<".", ".", "_", "x">>
    /\ \E i \in Where(trace, "write") : trace[i].name = saved[1].filename

====
